---- MODULE Spec2Model ----
(***************************************************************************)
(* Model of the shadow-price inlining decision protocol of                 *)
(* phase-2-poc/num_experiment.c: the Profile Store (profile_map_t), the    *)
(* price-to-threshold function (compute_adjusted_threshold) and the        *)
(* mutation pass (mutate_module).                                          *)
(*                                                                         *)
(* C doubles are modelled bit-exactly: a finite double is a sign and a     *)
(* magnitude held as a natural number of units of 2^-FracBits, and every   *)
(* arithmetic operation computes the exact result and rounds it to 53      *)
(* significant bits, ties to even, as IEEE-754 binary64 does.  Naturals    *)
(* wider than TLC's integers are little-endian sequences of 14-bit limbs.  *)
(* The representation is exact for zero and for magnitudes in              *)
(* [2^-17, 2^31), which covers every value the model computes.             *)
(***************************************************************************)
EXTENDS Integers, Sequences, FiniteSets, TLC

(***************************************************************************)
(* Evaluation helpers: F applied to the value of its arguments, each       *)
(* evaluated once.                                                         *)
(***************************************************************************)
Bind(F(_), a) == CHOOSE r \in {F(x) : x \in {a}} : TRUE
Bind2(F(_, _), a, b) == CHOOSE r \in {F(x, y) : x \in {a}, y \in {b}} : TRUE

(***************************************************************************)
(* Natural numbers of arbitrary width (limbs, least significant first).    *)
(***************************************************************************)
LimbBits == 7 + 7
Base == 2^LimbBits

Max2(a, b) == IF a >= b THEN a ELSE b

RECURSIVE BNormTo(_, _)
BNormTo(a, n) ==
    IF n = 0 THEN <<>>
    ELSE IF a[n] = 0 THEN BNormTo(a, n - 1)
    ELSE SubSeq(a, 1, n)

\* a without its leading zero limbs
BNorm(a) == Bind(LAMBDA x : BNormTo(x, Len(x)), a)

RECURSIVE BFromNat(_)
BFromNat(n) == IF n = 0 THEN <<>> ELSE <<n % Base>> \o BFromNat(n \div Base)

RECURSIVE BToNatFrom(_, _)
BToNatFrom(a, i) == IF i > Len(a) THEN 0 ELSE a[i] + Base * BToNatFrom(a, i + 1)

\* the value of a, below 2^31
BToNat(a) == Bind(LAMBDA x : BToNatFrom(x, 1), a)

Limb(a, i) == IF i <= Len(a) THEN a[i] ELSE 0

RECURSIVE BAddC(_, _, _, _)
BAddC(a, b, i, c) ==
    IF i > Max2(Len(a), Len(b))
    THEN (IF c = 0 THEN <<>> ELSE <<c>>)
    ELSE <<(Limb(a, i) + Limb(b, i) + c) % Base>>
            \o BAddC(a, b, i + 1, (Limb(a, i) + Limb(b, i) + c) \div Base)

BAdd(a, b) == Bind2(LAMBDA x, y : BAddC(x, y, 1, 0), a, b)

RECURSIVE BSubC(_, _, _, _)
BSubC(a, b, i, c) ==
    IF i > Len(a) THEN <<>>
    ELSE IF a[i] - Limb(b, i) - c < 0
         THEN <<a[i] - Limb(b, i) - c + Base>> \o BSubC(a, b, i + 1, 1)
         ELSE <<a[i] - Limb(b, i) - c>> \o BSubC(a, b, i + 1, 0)

\* a - b for a >= b
BSub(a, b) == Bind2(LAMBDA x, y : BNorm(BSubC(x, y, 1, 0)), a, b)

RECURSIVE BCmpAt(_, _, _)
BCmpAt(a, b, i) ==
    IF i = 0 THEN 0
    ELSE IF a[i] > b[i] THEN 1
    ELSE IF a[i] < b[i] THEN -1
    ELSE BCmpAt(a, b, i - 1)

\* -1, 0, 1 as a < b, a = b, a > b (operands without leading zero limbs)
BCmp(a, b) ==
    Bind2(LAMBDA x, y : IF Len(x) > Len(y) THEN 1
                        ELSE IF Len(x) < Len(y) THEN -1
                        ELSE BCmpAt(x, y, Len(x)), a, b)

RECURSIVE BMulSmallC(_, _, _, _)
BMulSmallC(a, k, i, c) ==
    IF i > Len(a) THEN BFromNat(c)
    ELSE <<(a[i] * k + c) % Base>> \o BMulSmallC(a, k, i + 1, (a[i] * k + c) \div Base)

\* a * k for 0 <= k <= 2^16
BMulSmall(a, k) == Bind2(LAMBDA x, y : BNorm(BMulSmallC(x, y, 1, 0)), a, k)

RECURSIVE BMulAt(_, _, _)
BMulAt(a, b, j) ==
    IF j > Len(b) THEN <<>>
    ELSE BAdd(BMulSmall(a, b[j]), <<0>> \o BMulAt(a, b, j + 1))

\* a * b
BMul(a, b) == Bind2(LAMBDA x, y : BNorm(BMulAt(x, y, 1)), a, b)

RECURSIVE BDivAcc(_, _, _, _, _)
BDivAcc(a, k, i, r, q) ==
    IF i = 0 THEN [q |-> BNorm(q), r |-> r]
    ELSE BDivAcc(a, k, i - 1, (r * Base + a[i]) % k, <<(r * Base + a[i]) \div k>> \o q)

\* quotient and remainder of a by k, 1 <= k <= 2^16, from the top limb down
BDivSmall(a, k) == Bind2(LAMBDA x, y : BDivAcc(x, y, Len(x), 0, <<>>), a, k)

RECURSIVE BitLenSmall(_)
BitLenSmall(n) == IF n = 0 THEN 0 ELSE 1 + BitLenSmall(n \div 2)

BBitLen(a) ==
    Bind(LAMBDA x : IF x = <<>> THEN 0
                    ELSE (Len(x) - 1) * LimbBits + BitLenSmall(x[Len(x)]), a)

Zeros(n) == [i \in 1..n |-> 0]

\* a * 2^k
BShl(a, k) ==
    Bind2(LAMBDA x, y : IF x = <<>> THEN <<>>
                        ELSE Zeros(y \div LimbBits) \o BMulSmall(x, 2^(y % LimbBits)), a, k)

\* floor(a / 2^k), and whether any non-zero bit was shifted out
BShrSticky(a, k) ==
    Bind2(LAMBDA x, nl :
            Bind2(LAMBDA d, low : [q |-> d.q,
                                   sticky |-> (d.r # 0) \/ (\E i \in 1..Len(low) : low[i] # 0)],
                  BDivSmall(IF nl >= Len(x) THEN <<>> ELSE SubSeq(x, nl + 1, Len(x)),
                            2^(k % LimbBits)),
                  SubSeq(x, 1, IF nl <= Len(x) THEN nl ELSE Len(x))),
          a, k \div LimbBits)

BOdd(a) == Limb(a, 1) % 2 = 1

(***************************************************************************)
(* IEEE-754 binary64 values.                                               *)
(***************************************************************************)
MantBits == 50 + 3
FracLimbs == 2 + 3
FracBits == FracLimbs * LimbBits

\* a (with `sticky` standing for non-zero bits below it) rounded to MantBits
\* significant bits, round-to-nearest, ties-to-even
RoundMant(a, sticky) ==
    Bind2(LAMBDA x, L :
            IF L <= MantBits THEN x
            ELSE Bind(LAMBDA sh :
                        Bind(LAMBDA half :
                               BShl(IF BOdd(sh.q) /\ (sh.sticky \/ sticky \/ BOdd(half))
                                    THEN BAdd(half, <<1>>) ELSE half,
                                    L - MantBits),
                             BDivSmall(sh.q, 2).q),
                      BShrSticky(x, L - MantBits - 1)),
          a, BBitLen(a))

NaN == [k |-> "nan", s |-> 0, m |-> <<>>]
Inf(s) == [k |-> "inf", s |-> s, m |-> <<>>]
Fin(s, m) == Bind(LAMBDA x : [k |-> "fin", s |-> IF x = <<>> THEN 0 ELSE s, m |-> x], m)

DZero == [k |-> "fin", s |-> 0, m |-> <<>>]
\* (double)n for an integer n, |n| < 2^31
DInt(n) == Fin(IF n < 0 THEN 1 ELSE 0,
               IF n = 0 THEN <<>> ELSE Zeros(FracLimbs) \o BFromNat(IF n < 0 THEN -n ELSE n))
DNeg(x) ==
    Bind(LAMBDA v : IF v.k = "nan" THEN NaN
                    ELSE IF v.k = "inf" THEN Inf(1 - v.s)
                    ELSE Fin(1 - v.s, v.m), x)

\* units of 2^-(2*FracBits) brought back to units of 2^-FracBits
DropFrac(a) ==
    Bind(LAMBDA x : IF Len(x) <= FracLimbs THEN <<>> ELSE SubSeq(x, FracLimbs + 1, Len(x)), a)

\* the double nearest to (-1)^s * n / d (n >= 0, 1 <= d <= 2^16): a decimal
\* literal, or the quotient of two exactly represented integers
DRat(s, n, d) ==
    Bind(LAMBDA qr : Fin(s, DropFrac(RoundMant(qr.q, qr.r # 0))),
         BDivSmall(BShl(BFromNat(n), 2 * FracBits), d))

\* the magnitude of an integer-valued x below 2^31
DIntMag(x) == BToNat(DropFrac(x.m))

\* x + y
DAdd(x0, y0) ==
    Bind2(LAMBDA x, y :
            IF x.k = "nan" \/ y.k = "nan" THEN NaN
            ELSE IF x.k = "inf" /\ y.k = "inf" THEN (IF x.s = y.s THEN x ELSE NaN)
            ELSE IF x.k = "inf" THEN x
            ELSE IF y.k = "inf" THEN y
            ELSE IF x.s = y.s THEN Fin(x.s, RoundMant(BAdd(x.m, y.m), FALSE))
            ELSE Bind(LAMBDA c :
                        IF c = 0 THEN DZero
                        ELSE IF c > 0 THEN Fin(x.s, RoundMant(BSub(x.m, y.m), FALSE))
                        ELSE Fin(y.s, RoundMant(BSub(y.m, x.m), FALSE)),
                      BCmp(x.m, y.m)),
          x0, y0)

\* x - y
DSub(x, y) == DAdd(x, DNeg(y))

\* x * y
DMul(x0, y0) ==
    Bind2(LAMBDA x, y :
            IF x.k = "nan" \/ y.k = "nan" THEN NaN
            ELSE IF x.k = "inf" \/ y.k = "inf"
                 THEN (IF (x.k = "fin" /\ x.m = <<>>) \/ (y.k = "fin" /\ y.m = <<>>)
                       THEN NaN ELSE Inf(IF x.s = y.s THEN 0 ELSE 1))
            ELSE Fin(IF x.s = y.s THEN 0 ELSE 1,
                     DropFrac(RoundMant(BMul(x.m, y.m), FALSE))),
          x0, y0)

\* x / y for a finite x and a non-negative integer y <= 2^16 (the only
\* divisions of the program: a call count by the largest call count)
DDiv(x0, y0) ==
    Bind2(LAMBDA x, y :
            IF y.m = <<>> THEN (IF x.m = <<>> THEN NaN ELSE Inf(x.s))
            ELSE Bind(LAMBDA qr : Fin(x.s, DropFrac(RoundMant(qr.q, qr.r # 0))),
                      BDivSmall(BShl(x.m, FracBits), DIntMag(y))),
          x0, y0)

\* x < y, false when either is a NaN
DLt(x0, y0) ==
    Bind2(LAMBDA x, y :
            IF x.k = "nan" \/ y.k = "nan" THEN FALSE
            ELSE IF x.k = "inf" THEN x.s = 1 /\ ~(y.k = "inf" /\ y.s = 1)
            ELSE IF y.k = "inf" THEN y.s = 0
            ELSE IF x.s # y.s THEN x.s = 1
            ELSE IF x.s = 0 THEN BCmp(x.m, y.m) < 0
            ELSE BCmp(x.m, y.m) > 0,
          x0, y0)

\* x > y
DGt(x, y) == DLt(y, x)

INT_MAX == (2^30 - 1) + 2^30
INT_MIN == -INT_MAX - 1
\* what a build may leave in the int when the conversion below is undefined
UBInts == {INT_MIN, 0, INT_MAX}

\* (int)x: truncation toward zero; undefined (C11 6.3.1.4) for a NaN, an
\* infinity or a value outside the range of int, where the build yields ub
CastInt(x0, ub) ==
    Bind(LAMBDA x :
           IF x.k # "fin" THEN ub
           ELSE IF BBitLen(x.m) > FracBits + 31 THEN ub
           ELSE IF x.s = 0 THEN BToNat(DropFrac(x.m)) ELSE -BToNat(DropFrac(x.m)),
         x0)

(***************************************************************************)
(* Section 1: configuration.                                               *)
(***************************************************************************)
MIR_CALL_INLINE_THRESHOLD == 50
MIR_INLINE_THRESHOLD == 200
SCALE_FLOOR == DRat(0, 1, 10)
SCALE_CEIL == DInt(5)
THRESHOLD_FLOOR == 5

(***************************************************************************)
(* Section 2: the Profile Store.  A profile_map_t is a record of the       *)
(* entries array, the count of live entries and max_count; a pointer to an *)
(* entry is its index, NoEntry the null pointer.  PROFILE_MAP_SIZE is 256  *)
(* in the program and scaled down here; call counts (uint64_t) stay far    *)
(* below 2^64 under MaxCount.                                              *)
(***************************************************************************)
PROFILE_MAP_SIZE == 2
MaxCount == 2
Names == {"f", "g", "h"}
NullName == "NULL"
NoEntry == -1

ZeroEntry == [func_name |-> NullName, call_count |-> 0, shadow_price |-> DZero]

\* memset(map, 0, sizeof(*map))
profile_map_init ==
    [entries |-> [i \in 0..(PROFILE_MAP_SIZE - 1) |-> ZeroEntry],
     count |-> 0, max_count |-> DZero]

\* the first live entry named `name`, or NoEntry
profile_map_get(map, name) ==
    LET hits == {i \in 0..(map.count - 1) : map.entries[i].func_name = name}
    IN  IF hits = {} THEN NoEntry
        ELSE CHOOSE i \in hits : \A j \in hits : i <= j

\* profile_map_increment without the `return` after a hit: the found entry
\* is counted and the name is appended again (a faulty variant)
profile_map_increment_fallthrough(map, name) ==
    LET e == profile_map_get(map, name)
        hit == IF e # NoEntry THEN [map EXCEPT !.entries[e].call_count = @ + 1] ELSE map
    IN  IF map.count < PROFILE_MAP_SIZE
        THEN [hit EXCEPT !.entries[map.count] =
                             [func_name |-> name, call_count |-> 1, shadow_price |-> DZero],
                         !.count = @ + 1]
        ELSE hit

\* profile_map_increment that reuses the last slot of a full table for a new
\* name instead of dropping it (a faulty variant)
profile_map_increment_evict(map, name) ==
    LET e == profile_map_get(map, name)
    IN  IF e # NoEntry
        THEN [map EXCEPT !.entries[e].call_count = @ + 1]
        ELSE IF map.count < PROFILE_MAP_SIZE
        THEN [map EXCEPT !.entries[map.count] =
                             [func_name |-> name, call_count |-> 1, shadow_price |-> DZero],
                         !.count = @ + 1]
        ELSE [map EXCEPT !.entries[PROFILE_MAP_SIZE - 1] =
                             [func_name |-> name, call_count |-> 1, shadow_price |-> DZero]]

profile_map_increment(map, name) ==
    LET e == profile_map_get(map, name)
    IN  IF e # NoEntry
        THEN [map EXCEPT !.entries[e].call_count = @ + 1]
        ELSE IF map.count < PROFILE_MAP_SIZE
        THEN [map EXCEPT !.entries[map.count] =
                             [func_name |-> name, call_count |-> 1, shadow_price |-> DZero],
                         !.count = @ + 1]
        ELSE map

RECURSIVE normalize_max_first(_, _, _)
\* the first loop keeping the first call count it meets (a faulty variant)
normalize_max_first(map, i, mx) ==
    IF i >= map.count THEN mx
    ELSE Bind2(LAMBDA c, old : normalize_max_first(map, i + 1,
                                                   IF old = DZero THEN c ELSE old),
               DInt(map.entries[i].call_count), mx)

RECURSIVE normalize_max_lt(_, _, _)
\* the first loop with its comparison turned round (a faulty variant)
normalize_max_lt(map, i, mx) ==
    IF i >= map.count THEN mx
    ELSE Bind2(LAMBDA c, old : normalize_max_lt(map, i + 1, IF DLt(c, old) THEN c ELSE old),
               DInt(map.entries[i].call_count), mx)

\* the first loop of profile_map_normalize over entries i..count-1, max so far mx
RECURSIVE normalize_max(_, _, _)
normalize_max(map, i, mx) ==
    IF i >= map.count THEN mx
    ELSE Bind2(LAMBDA c, old : normalize_max(map, i + 1, IF DGt(c, old) THEN c ELSE old),
               DInt(map.entries[i].call_count), mx)

\* profile_map_normalize with a second loop that starts at entry 1, with one
\* that divides by the number of entries, and with one that adds the quotient
\* to the price it finds (faulty variants)
profile_map_normalize_from1(map) ==
    Bind(LAMBDA mx :
           IF DGt(mx, DZero)
           THEN [map |-> [map EXCEPT
                            !.max_count = mx,
                            !.entries = [i \in DOMAIN map.entries |->
                               IF 1 <= i /\ i < map.count
                               THEN [map.entries[i] EXCEPT
                                       !.shadow_price =
                                           DDiv(DInt(map.entries[i].call_count), mx)]
                               ELSE map.entries[i]]],
                 divisions |-> map.count]
           ELSE [map |-> [map EXCEPT !.max_count = mx], divisions |-> 0],
         normalize_max(map, 0, DZero))

profile_map_normalize_by_count(map) ==
    Bind(LAMBDA mx :
           IF DGt(mx, DZero)
           THEN [map |-> [map EXCEPT
                            !.max_count = mx,
                            !.entries = [i \in DOMAIN map.entries |->
                               IF i < map.count
                               THEN [map.entries[i] EXCEPT
                                       !.shadow_price =
                                           DDiv(DInt(map.entries[i].call_count),
                                                DInt(map.count))]
                               ELSE map.entries[i]]],
                 divisions |-> map.count]
           ELSE [map |-> [map EXCEPT !.max_count = mx], divisions |-> 0],
         normalize_max(map, 0, DZero))

profile_map_normalize_add(map) ==
    Bind(LAMBDA mx :
           IF DGt(mx, DZero)
           THEN [map |-> [map EXCEPT
                            !.max_count = mx,
                            !.entries = [i \in DOMAIN map.entries |->
                               IF i < map.count
                               THEN [map.entries[i] EXCEPT
                                       !.shadow_price =
                                           DAdd(@, DDiv(DInt(map.entries[i].call_count), mx))]
                               ELSE map.entries[i]]],
                 divisions |-> map.count]
           ELSE [map |-> [map EXCEPT !.max_count = mx], divisions |-> 0],
         normalize_max(map, 0, DZero))

\* the map as profile_map_normalize leaves it, and the number of floating
\* divisions the call executed
profile_map_normalize(map) ==
    Bind(LAMBDA mx :
           IF DGt(mx, DZero)
           THEN [map |-> [map EXCEPT
                            !.max_count = mx,
                            !.entries = [i \in DOMAIN map.entries |->
                               IF i < map.count
                               THEN [map.entries[i] EXCEPT
                                       !.shadow_price =
                                           DDiv(DInt(map.entries[i].call_count), mx)]
                               ELSE map.entries[i]]],
                 divisions |-> map.count]
           ELSE [map |-> [map EXCEPT !.max_count = mx], divisions |-> 0],
         normalize_max(map, 0, DZero))

(***************************************************************************)
(* Section 4: the price-to-threshold function.  `ub` is the int a build    *)
(* yields for the undefined conversion of a NaN product.                   *)
(***************************************************************************)
\* compute_adjusted_threshold without its last clamp, without the inversion,
\* and with the price itself taken as the scale factor (faulty variants)
threshold_no_ceiling(shadow_price, inverted, ub) ==
    Bind(LAMBDA linear :
      Bind(LAMBDA floored :
        Bind(LAMBDA scale_factor :
          Bind(LAMBDA cast : IF cast < THRESHOLD_FLOOR THEN THRESHOLD_FLOOR ELSE cast,
            CastInt(DMul(DInt(MIR_CALL_INLINE_THRESHOLD), scale_factor), ub)),
          IF DGt(floored, SCALE_CEIL) THEN SCALE_CEIL ELSE floored),
        IF DLt(linear, SCALE_FLOOR) THEN SCALE_FLOOR ELSE linear),
      DAdd(SCALE_FLOOR,
           DMul(IF inverted # 0 THEN DSub(DInt(1), shadow_price) ELSE shadow_price,
                DSub(SCALE_CEIL, SCALE_FLOOR))))

threshold_no_inversion(shadow_price, inverted, ub) ==
    Bind(LAMBDA linear :
      Bind(LAMBDA floored :
        Bind(LAMBDA scale_factor :
          Bind(LAMBDA cast :
            Bind(LAMBDA raised :
                   IF raised > MIR_INLINE_THRESHOLD THEN MIR_INLINE_THRESHOLD ELSE raised,
                 IF cast < THRESHOLD_FLOOR THEN THRESHOLD_FLOOR ELSE cast),
            CastInt(DMul(DInt(MIR_CALL_INLINE_THRESHOLD), scale_factor), ub)),
          IF DGt(floored, SCALE_CEIL) THEN SCALE_CEIL ELSE floored),
        IF DLt(linear, SCALE_FLOOR) THEN SCALE_FLOOR ELSE linear),
      DAdd(SCALE_FLOOR, DMul(shadow_price, DSub(SCALE_CEIL, SCALE_FLOOR))))

threshold_unscaled(shadow_price, inverted, ub) ==
    Bind(LAMBDA linear :
      Bind(LAMBDA floored :
        Bind(LAMBDA scale_factor :
          Bind(LAMBDA cast :
            Bind(LAMBDA raised :
                   IF raised > MIR_INLINE_THRESHOLD THEN MIR_INLINE_THRESHOLD ELSE raised,
                 IF cast < THRESHOLD_FLOOR THEN THRESHOLD_FLOOR ELSE cast),
            CastInt(DMul(DInt(MIR_CALL_INLINE_THRESHOLD), scale_factor), ub)),
          IF DGt(floored, SCALE_CEIL) THEN SCALE_CEIL ELSE floored),
        IF DLt(linear, SCALE_FLOOR) THEN SCALE_FLOOR ELSE linear),
      IF inverted # 0 THEN DSub(DInt(1), shadow_price) ELSE shadow_price)

compute_adjusted_threshold(shadow_price, inverted, ub) ==
    Bind(LAMBDA linear :
      Bind(LAMBDA floored :
        Bind(LAMBDA scale_factor :
          Bind(LAMBDA cast :
            Bind(LAMBDA raised :
                   IF raised > MIR_INLINE_THRESHOLD THEN MIR_INLINE_THRESHOLD ELSE raised,
                 IF cast < THRESHOLD_FLOOR THEN THRESHOLD_FLOOR ELSE cast),
            CastInt(DMul(DInt(MIR_CALL_INLINE_THRESHOLD), scale_factor), ub)),
          IF DGt(floored, SCALE_CEIL) THEN SCALE_CEIL ELSE floored),
        IF DLt(linear, SCALE_FLOOR) THEN SCALE_FLOOR ELSE linear),
      DAdd(SCALE_FLOOR,
           DMul(IF inverted # 0 THEN DSub(DInt(1), shadow_price) ELSE shadow_price,
                DSub(SCALE_CEIL, SCALE_FLOOR))))

\* the lookup with 1.0 for a callee without an entry (a faulty variant)
lookup_hot_default(map, name) ==
    LET pe == profile_map_get(map, name)
    IN  IF pe # NoEntry THEN map.entries[pe].shadow_price ELSE DInt(1)

\* pe ? pe->shadow_price : 0.0, the lookup of a callee's price
lookup(map, name) ==
    LET pe == profile_map_get(map, name)
    IN  IF pe # NoEntry THEN map.entries[pe].shadow_price ELSE DZero

(***************************************************************************)
(* Section 4: the mutation pass.  A module is the sequence of its items;   *)
(* an item is a function (with its instruction list) or a prototype.  An   *)
(* instruction has a code and, for call-family codes, the callee reference *)
(* ops[1].u.ref: the index of an item of the module, or NullRef.  A run of *)
(* n consecutive non-call instructions is held as one element with that n  *)
(* (call instructions have n = 1).  unsigned int is 32 bits wide and held  *)
(* as its bits, least significant first.                                   *)
(***************************************************************************)
COND_NO_INLINE == 0
COND_BLIND_ALL == 1
COND_RANDOM_50 == 2
COND_SHADOW_PRICE == 3
COND_INVERTED_PRICE == 4
COND_COUNT == 5
RANDOM_SEED == 42
MAX_INLINE_CHAIN == 2
NUM_RUNS == 2
NullRef == 0

WordBits == 0..31
Bits32(n) == [i \in WordBits |-> IF i < 31 THEN (n \div 2^i) % 2 ELSE 0]
Shl(x, k) == [i \in WordBits |-> IF i >= k THEN x[i - k] ELSE 0]
Shr(x, k) == [i \in WordBits |-> IF i + k <= 31 THEN x[i + k] ELSE 0]
Xor(x, y) == [i \in WordBits |-> (x[i] + y[i]) % 2]

\* *rng_state ^= *rng_state << 13; ^= >> 17; ^= << 5
xorshift32(x) ==
    LET a == Xor(x, Shl(x, 13))
        b == Xor(a, Shr(a, 17))
    IN  Xor(b, Shl(b, 5))

RECURSIVE SumN(_)
SumN(insns) == IF insns = <<>> THEN 0 ELSE Head(insns).n + SumN(Tail(insns))

count_func_insns(func) == SumN(func.insns)

UninitName == "UNINIT"
\* the chain as declared on the stack: nothing initialised
chain_decl == [names |-> [i \in 0..(MAX_INLINE_CHAIN - 1) |-> UninitName], depth |-> 0]
chain_init(chain) == [chain EXCEPT !.depth = 0]
\* chain_contains with a loop that stops one name early (a faulty variant)
chain_contains_short(chain, name) == \E i \in 0..(chain.depth - 2) : chain.names[i] = name
chain_contains(chain, name) == \E i \in 0..(chain.depth - 1) : chain.names[i] = name
\* chain_push without its test for a full chain, and chain_push that stores
\* the name without advancing the depth (faulty variants)
chain_push_unchecked(chain, name) ==
    [chain EXCEPT !.names[chain.depth] = name, !.depth = @ + 1]
chain_push_no_advance(chain, name) ==
    IF chain.depth >= MAX_INLINE_CHAIN THEN chain
    ELSE [chain EXCEPT !.names[chain.depth] = name]
chain_push(chain, name) ==
    IF chain.depth >= MAX_INLINE_CHAIN THEN chain
    ELSE [chain EXCEPT !.names[chain.depth] = name, !.depth = @ + 1]
\* the value chain_push returns
chain_push_value(chain, name) == IF chain.depth >= MAX_INLINE_CHAIN THEN 0 ELSE 1

NoDecision ==
    [kind |-> "none", item |-> 0, insn |-> 0, callee_name |-> NullName,
     callee_insns |-> 0, lambda |-> DZero, threshold |-> 0, should_promote |-> 0]

\* the switch without the break of its first case, which runs on into the
\* second (a faulty variant)
decide_site_no_break(cond, prof, rng, callee_name, callee_insns, ub) ==
    IF cond = COND_NO_INLINE
    THEN [should_promote |-> 1, rng |-> rng, lambda |-> DZero, threshold |-> 0]
    ELSE IF cond = COND_BLIND_ALL
    THEN [should_promote |-> 1, rng |-> rng, lambda |-> DZero, threshold |-> 0]
    ELSE IF cond = COND_RANDOM_50
    THEN Bind(LAMBDA rng2 :
                [should_promote |-> IF rng2[0] = 0 THEN 1 ELSE 0, rng |-> rng2,
                 lambda |-> DZero, threshold |-> 0],
              xorshift32(rng))
    ELSE IF cond \in {COND_SHADOW_PRICE, COND_INVERTED_PRICE}
    THEN Bind(LAMBDA lambda :
                Bind(LAMBDA threshold :
                       [should_promote |-> IF callee_insns < threshold THEN 1 ELSE 0,
                        rng |-> rng, lambda |-> lambda, threshold |-> threshold],
                     compute_adjusted_threshold(
                         lambda, IF cond = COND_SHADOW_PRICE THEN 0 ELSE 1, ub)),
              lookup(prof, callee_name))
    ELSE [should_promote |-> 0, rng |-> rng, lambda |-> DZero, threshold |-> 0]

\* the switch without the break of its second case, which runs on into the
\* third (a faulty variant)
decide_site_blind_random(cond, prof, rng, callee_name, callee_insns, ub) ==
    IF cond = COND_NO_INLINE
    THEN [should_promote |-> 0, rng |-> rng, lambda |-> DZero, threshold |-> 0]
    ELSE IF cond \in {COND_BLIND_ALL, COND_RANDOM_50}
    THEN Bind(LAMBDA rng2 :
                [should_promote |-> IF rng2[0] = 0 THEN 1 ELSE 0, rng |-> rng2,
                 lambda |-> DZero, threshold |-> 0],
              xorshift32(rng))
    ELSE IF cond \in {COND_SHADOW_PRICE, COND_INVERTED_PRICE}
    THEN Bind(LAMBDA lambda :
                Bind(LAMBDA threshold :
                       [should_promote |-> IF callee_insns < threshold THEN 1 ELSE 0,
                        rng |-> rng, lambda |-> lambda, threshold |-> threshold],
                     compute_adjusted_threshold(
                         lambda, IF cond = COND_SHADOW_PRICE THEN 0 ELSE 1, ub)),
              lookup(prof, callee_name))
    ELSE [should_promote |-> 0, rng |-> rng, lambda |-> DZero, threshold |-> 0]

\* the switch with <= for < in the priced cases (a faulty variant)
decide_site_le(cond, prof, rng, callee_name, callee_insns, ub) ==
    IF cond = COND_NO_INLINE
    THEN [should_promote |-> 0, rng |-> rng, lambda |-> DZero, threshold |-> 0]
    ELSE IF cond = COND_BLIND_ALL
    THEN [should_promote |-> 1, rng |-> rng, lambda |-> DZero, threshold |-> 0]
    ELSE IF cond = COND_RANDOM_50
    THEN Bind(LAMBDA rng2 :
                [should_promote |-> IF rng2[0] = 0 THEN 1 ELSE 0, rng |-> rng2,
                 lambda |-> DZero, threshold |-> 0],
              xorshift32(rng))
    ELSE IF cond \in {COND_SHADOW_PRICE, COND_INVERTED_PRICE}
    THEN Bind(LAMBDA lambda :
                Bind(LAMBDA threshold :
                       [should_promote |-> IF callee_insns <= threshold THEN 1 ELSE 0,
                        rng |-> rng, lambda |-> lambda, threshold |-> threshold],
                     compute_adjusted_threshold(
                         lambda, IF cond = COND_SHADOW_PRICE THEN 0 ELSE 1, ub)),
              lookup(prof, callee_name))
    ELSE [should_promote |-> 0, rng |-> rng, lambda |-> DZero, threshold |-> 0]

\* the switch with the generator stepped ahead of it, under every condition
\* (a faulty variant)
decide_site_draw_first(cond, prof, rng, callee_name, callee_insns, ub) ==
    Bind(LAMBDA rng2 :
      IF cond = COND_NO_INLINE
      THEN [should_promote |-> 0, rng |-> rng2, lambda |-> DZero, threshold |-> 0]
      ELSE IF cond = COND_BLIND_ALL
      THEN [should_promote |-> 1, rng |-> rng2, lambda |-> DZero, threshold |-> 0]
      ELSE IF cond = COND_RANDOM_50
      THEN [should_promote |-> IF rng2[0] = 0 THEN 1 ELSE 0, rng |-> rng2,
            lambda |-> DZero, threshold |-> 0]
      ELSE IF cond \in {COND_SHADOW_PRICE, COND_INVERTED_PRICE}
      THEN Bind(LAMBDA lambda :
                  Bind(LAMBDA threshold :
                         [should_promote |-> IF callee_insns < threshold THEN 1 ELSE 0,
                          rng |-> rng2, lambda |-> lambda, threshold |-> threshold],
                       compute_adjusted_threshold(
                           lambda, IF cond = COND_SHADOW_PRICE THEN 0 ELSE 1, ub)),
                lookup(prof, callee_name))
      ELSE [should_promote |-> 0, rng |-> rng2, lambda |-> DZero, threshold |-> 0],
      xorshift32(rng))

\* the switch on the condition for a call site that is being decided: what it
\* sets should_promote to, the generator state it leaves, and the price and
\* threshold it used (0.0 and 0 where the condition uses none)
decide_site(cond, prof, rng, callee_name, callee_insns, ub) ==
    IF cond = COND_NO_INLINE
    THEN [should_promote |-> 0, rng |-> rng, lambda |-> DZero, threshold |-> 0]
    ELSE IF cond = COND_BLIND_ALL
    THEN [should_promote |-> 1, rng |-> rng, lambda |-> DZero, threshold |-> 0]
    ELSE IF cond = COND_RANDOM_50
    THEN Bind(LAMBDA rng2 :
                [should_promote |-> IF rng2[0] = 0 THEN 1 ELSE 0, rng |-> rng2,
                 lambda |-> DZero, threshold |-> 0],
              xorshift32(rng))
    ELSE IF cond \in {COND_SHADOW_PRICE, COND_INVERTED_PRICE}
    THEN Bind(LAMBDA lambda :
                Bind(LAMBDA threshold :
                       [should_promote |-> IF callee_insns < threshold THEN 1 ELSE 0,
                        rng |-> rng, lambda |-> lambda, threshold |-> threshold],
                     compute_adjusted_threshold(
                         lambda, IF cond = COND_SHADOW_PRICE THEN 0 ELSE 1, ub)),
              lookup(prof, callee_name))
    ELSE [should_promote |-> 0, rng |-> rng, lambda |-> DZero, threshold |-> 0]

\* the body of the instruction loop from the resolved callee on, at a call
\* instruction `j` of function item `i` whose callee is a function item
mutate_call(mod, cond, prof, rng, chain, mutations, i, j, ub) ==
    LET callee       == mod[mod[i].insns[j].ref]
        callee_name  == callee.name
        callee_insns == count_func_insns(callee)
    IN  IF chain_contains(chain, callee_name)
        THEN [m |-> mod, rng |-> rng, chain |-> chain, mutations |-> mutations,
              dec |-> [NoDecision EXCEPT !.kind = "in_chain", !.item = i, !.insn = j,
                                         !.callee_name = callee_name,
                                         !.callee_insns = callee_insns]]
        ELSE Bind(LAMBDA d :
                    Bind(LAMBDA rec :
                           IF d.should_promote # 0
                           THEN [m |-> [mod EXCEPT ![i].insns[j].code = "MIR_INLINE"],
                                 rng |-> d.rng,
                                 chain |-> chain_push(chain, callee_name),
                                 mutations |-> mutations + 1,
                                 dec |-> rec]
                           ELSE [m |-> mod, rng |-> d.rng, chain |-> chain,
                                 mutations |-> mutations, dec |-> rec],
                         [kind |-> "decided", item |-> i, insn |-> j,
                          callee_name |-> callee_name, callee_insns |-> callee_insns,
                          lambda |-> d.lambda, threshold |-> d.threshold,
                          should_promote |-> d.should_promote]),
                  decide_site(cond, prof, rng, callee_name, callee_insns, ub))

\* the iteration without the check that the callee is a function item (a
\* faulty variant)
mutate_insn_any_item(mod, cond, prof, rng, chain, mutations, i, j, ub) ==
    LET insn == mod[i].insns[j]
        skip(kind) == [m |-> mod, rng |-> rng, chain |-> chain, mutations |-> mutations,
                       dec |-> [NoDecision EXCEPT !.kind = kind, !.item = i, !.insn = j]]
    IN  IF insn.code # "MIR_CALL" THEN skip("not_call")
        ELSE IF insn.ref = NullRef THEN skip("null_callee")
        ELSE mutate_call(mod, cond, prof, rng, chain, mutations, i, j, ub)

\* the iteration without the check that the instruction is a plain call (a
\* faulty variant)
mutate_insn_any_code(mod, cond, prof, rng, chain, mutations, i, j, ub) ==
    LET insn == mod[i].insns[j]
        skip(kind) == [m |-> mod, rng |-> rng, chain |-> chain, mutations |-> mutations,
                       dec |-> [NoDecision EXCEPT !.kind = kind, !.item = i, !.insn = j]]
    IN  IF insn.ref = NullRef THEN skip("null_callee")
        ELSE IF mod[insn.ref].item_type # "MIR_func_item" THEN skip("not_func")
        ELSE mutate_call(mod, cond, prof, rng, chain, mutations, i, j, ub)

\* one iteration of the instruction loop of mutate_module, at instruction
\* `j` of function item `i`: the module, generator state, chain and counter
\* it leaves, and what it decided
mutate_insn(mod, cond, prof, rng, chain, mutations, i, j, ub) ==
    LET insn == mod[i].insns[j]
        skip(kind) == [m |-> mod, rng |-> rng, chain |-> chain, mutations |-> mutations,
                       dec |-> [NoDecision EXCEPT !.kind = kind, !.item = i, !.insn = j]]
    IN  IF insn.code # "MIR_CALL" THEN skip("not_call")
        ELSE IF insn.ref = NullRef THEN skip("null_callee")
        ELSE IF mod[insn.ref].item_type # "MIR_func_item" THEN skip("not_func")
        ELSE mutate_call(mod, cond, prof, rng, chain, mutations, i, j, ub)

RECURSIVE mutate_from(_, _, _, _, _, _, _, _, _)
\* the rest of the two loops of mutate_module from instruction `j` of item
\* `i` on, and the value returned at their end
mutate_from(mod, cond, prof, rng, chain, mutations, i, j, ub) ==
    IF i > Len(mod) THEN mutations
    ELSE IF mod[i].item_type # "MIR_func_item" \/ j > Len(mod[i].insns)
    THEN mutate_from(mod, cond, prof, rng, chain, mutations, i + 1, 1, ub)
    ELSE Bind(LAMBDA r : mutate_from(r.m, cond, prof, r.rng, r.chain, r.mutations,
                                     i, j + 1, ub),
              mutate_insn(mod, cond, prof, rng, chain, mutations, i, j, ub))

\* the value mutate_module(m, condition, profile, &rng_state) returns
mutate_module(mod, cond, prof, rng, ub) ==
    mutate_from(mod, cond, prof, rng, chain_init(chain_decl), 0, 1, 1, ub)

(***************************************************************************)
(* The stratified test harness, src/test-num-experiment.c: the decision    *)
(* function should_inline_with_num_v2 and the prices get_shadow_price      *)
(* hands it.  A function name is the triple of numbers printed into it, a  *)
(* row of the log the values of its columns, the price column as the       *)
(* number of hundredths that %.2f prints.                                  *)
(***************************************************************************)
NUM_FUNCS == 50
NUM_SIZES == 5
NUM_OPT_LEVELS == 3
sizes == <<10, 50, 100, 200, 500>>
baseline_thresholds == <<20, 50, 100>>

\* the hundredths printed by %.2f for a finite x: x * 100 rounded to the
\* nearest integer, ties to even
Hundredths(x) ==
    Bind(LAMBDA sh :
           Bind(LAMBDA n :
                  (IF x.s = 1 THEN -1 ELSE 1) *
                  (IF BOdd(sh.q) /\ (sh.sticky \/ n % 2 = 1) THEN n + 1 ELSE n),
                BToNat(BDivSmall(sh.q, 2).q)),
         BShrSticky(BMulSmall(x.m, 100), FracBits - 1))

\* should_inline_with_num_v2 with <= for < in the decision (a faulty variant)
should_inline_le(func_name, ir_count, shadow_price, opt_level, ub) ==
    Bind(LAMBDA quotient :
      Bind(LAMBDA lambda_scale :
        Bind(LAMBDA cast :
          Bind(LAMBDA adjusted_threshold :
                 [inlined |-> IF ir_count <= adjusted_threshold THEN 1 ELSE 0,
                  base_thresh |-> baseline_thresholds[opt_level + 1],
                  adjusted_threshold |-> adjusted_threshold],
               IF cast < 5 THEN 5 ELSE IF cast > 1000 THEN 1000 ELSE cast),
          CastInt(DMul(DInt(baseline_thresholds[opt_level + 1]), lambda_scale), ub)),
        IF DLt(quotient, DRat(0, 1, 10)) THEN DRat(0, 1, 10)
        ELSE IF DGt(quotient, DInt(5)) THEN DInt(5) ELSE quotient),
      DDiv(shadow_price, DInt(100)))

\* the value should_inline_with_num_v2 returns, with the two thresholds it
\* logs, for opt_level in 0..2
should_inline_with_num_v2(func_name, ir_count, shadow_price, opt_level, ub) ==
    Bind(LAMBDA quotient :
      Bind(LAMBDA lambda_scale :
        Bind(LAMBDA cast :
          Bind(LAMBDA adjusted_threshold :
                 [inlined |-> IF ir_count < adjusted_threshold THEN 1 ELSE 0,
                  base_thresh |-> baseline_thresholds[opt_level + 1],
                  adjusted_threshold |-> adjusted_threshold],
               IF cast < 5 THEN 5 ELSE IF cast > 1000 THEN 1000 ELSE cast),
          CastInt(DMul(DInt(baseline_thresholds[opt_level + 1]), lambda_scale), ub)),
        IF DLt(quotient, DRat(0, 1, 10)) THEN DRat(0, 1, 10)
        ELSE IF DGt(quotient, DInt(5)) THEN DInt(5) ELSE quotient),
      DDiv(shadow_price, DInt(100)))

\* the row should_inline_with_num_v2 appends to the log when it is open
log_row(func_name, ir_count, shadow_price, opt_level, r) ==
    <<func_name, Hundredths(shadow_price), ir_count, opt_level,
      r.inlined, r.base_thresh, r.adjusted_threshold>>

\* get_shadow_price; r1 and r2 are what the first and the second rand() of
\* the call return
get_shadow_price(condition, func_idx, size_idx, r1, r2) ==
    IF condition \in {"baseline", "uniform"} THEN DInt(100)
    ELSE IF condition = "skewed"
    THEN (IF func_idx % 2 = 0 THEN DInt(1000) ELSE DInt(10))
    ELSE IF condition = "perturbed"
    THEN Bind(LAMBDA base : IF DLt(base, DInt(1)) THEN DInt(1)
                            ELSE IF DGt(base, DInt(2000)) THEN DInt(2000) ELSE base,
              IF func_idx % 2 = 0
              THEN DAdd(DInt(1000), DSub(DInt(r1 % 401), DInt(200)))
              ELSE DAdd(DInt(10), DSub(DInt(r2 % 11), DInt(5))))
    ELSE DInt(100)

(***************************************************************************)
(* The units and profiles the passes are run on.                           *)
(***************************************************************************)
Func(name, insns) == [item_type |-> "MIR_func_item", name |-> name, insns |-> insns]
Proto(name) == [item_type |-> "MIR_proto_item", name |-> name, insns |-> <<>>]
Call(ref) == [code |-> "MIR_CALL", ref |-> ref, n |-> 1]
Inline(ref) == [code |-> "MIR_INLINE", ref |-> ref, n |-> 1]
Other(n) == [code |-> "OTHER", ref |-> NullRef, n |-> n]

\* callee sizes on both sides of the thresholds the profiles produce
Sizes == {THRESHOLD_FLOOR - 1, THRESHOLD_FLOOR, 126, 127,
          MIR_INLINE_THRESHOLD - 1, MIR_INLINE_THRESHOLD}

\* a driver with call sites to three callees of `size` instructions, an
\* unresolved call, a call through a prototype and an inline candidate
FlatUnit(size) ==
    << Proto("p"),
       Func("f", <<Other(size)>>),
       Func("g", <<Other(size)>>),
       Func("h", <<Other(size)>>),
       Func("driver", <<Other(2), Call(2), Call(3), Other(1), Call(4), Call(2),
                        Call(NullRef), Call(1), Inline(3), Other(1)>>) >>

\* f calls itself twice and g; g calls f twice and h
CycleUnit ==
    << Func("f", <<Call(1), Other(1), Call(2), Call(1)>>),
       Func("g", <<Call(1), Call(1), Call(3), Other(2)>>),
       Func("h", <<Other(THRESHOLD_FLOOR - 1)>>) >>

CalleeNames == <<"f", "g", "h", "k", "l">>

\* a driver calling one more distinct callee than the chain has room for
\* (the last of them twice), then a function that calls itself twice
WideUnit ==
    LET w == MAX_INLINE_CHAIN + 1
    IN  << Func("driver", [k \in 1..(w + 1) |-> Call(1 + (IF k <= w THEN k ELSE w))]) >>
        \o [k \in 1..w |-> Func(CalleeNames[k], <<Other(THRESHOLD_FLOOR - 1)>>)]
        \o << Func("self", <<Call(w + 2), Other(1), Call(w + 2)>>) >>

\* a driver with an inline candidate and repeated call sites to two callees
PairUnit ==
    << Func("driver", <<Inline(2), Call(2), Other(1), Call(3), Call(2), Call(3)>>),
       Func("f", <<Other(THRESHOLD_FLOOR - 1)>>),
       Func("g", <<Other(THRESHOLD_FLOOR)>>) >>

Units == {FlatUnit(size) : size \in Sizes} \cup {CycleUnit, WideUnit, PairUnit}

RECURSIVE Recorded(_)
\* the store after profile_map_init and one profile_map_increment per name
Recorded(names) ==
    IF names = <<>> THEN profile_map_init
    ELSE profile_map_increment(Recorded(SubSeq(names, 1, Len(names) - 1)),
                               names[Len(names)])

\* the record calls that filled the stores the passes read
RecordRuns == {<<>>, <<"f">>, <<"g", "g", "f">>, <<"h", "f", "g", "f">>}

MaxSeed == 1
Seeds == {RANDOM_SEED} \cup 0..MaxSeed

(***************************************************************************)
(* State.  profile is the Profile Store.  op, pre, norm_last, norm_prev    *)
(* and dropped are history variables: the last store operation, the store  *)
(* before it, the store as the last two normalize calls left it, and the   *)
(* names an increment dropped.  thr records the last direct call of        *)
(* compute_adjusted_threshold.  m, condition, rng_state, chain, mutations  *)
(* are the arguments and locals of the running mutate_module, pc its       *)
(* position, ret its return value.  dec, pass_profile, pass_unit, before   *)
(* and trace are history variables: what the last iteration decided, the   *)
(* store and the unit as the pass found them, the module, generator state, *)
(* chain and counter as the last iteration found them, and the decisions   *)
(* of the pass at the call instructions it has visited, in order.  hist     *)
(* is a history variable too: who called the pass, the number of passes    *)
(* that caller has started, the generator state the pass was entered with  *)
(* and what the caller's previous pass left.  prog is the state of main    *)
(* and of the run_condition it calls: position, live compilation           *)
(* contexts, loop counters, results and output.  harness is the state of   *)
(* the test harness around a call of should_inline_with_num_v2.            *)
(***************************************************************************)
VARIABLES profile, op, pre, norm_last, norm_prev, dropped, thr,
          m, condition, rng_state, chain, mutations, pc, ret, dec, pass_profile,
          pass_unit, before, trace, hist, prog, harness

storeVars == <<profile, op, pre, norm_last, norm_prev, dropped>>
passVars == <<m, condition, rng_state, chain, mutations, pc, ret, dec, pass_profile,
              pass_unit, before, trace, hist>>
progVars == <<prog, harness>>
vars == <<profile, op, pre, norm_last, norm_prev, dropped, thr,
          m, condition, rng_state, chain, mutations, pc, ret, dec, pass_profile,
          pass_unit, before, trace, hist, prog, harness>>

NoProfile == [entries |-> <<>>, count |-> -1, max_count |-> DZero]
NoCall == [price |-> DZero, inverted |-> 0, ub |-> 0, called |-> FALSE, result |-> 0]

StoreInit ==
    /\ profile = profile_map_init
    /\ op = [name |-> "init", arg |-> NullName, divisions |-> 0, prev |-> "none"]
    /\ pre = NoProfile
    /\ norm_last = NoProfile
    /\ norm_prev = NoProfile
    /\ dropped = {}

\* results[c] before run_condition has cleared it, and main before it starts
NoResult == [valid |-> FALSE, mutations |-> 0, timed |-> 0, result_set |-> FALSE,
             stats |-> FALSE]
NoProg == [pc |-> "none", live |-> {}, created |-> 0, ctx |-> 0, k |-> 0, i |-> 0,
           c |-> 0, run |-> 0,
           rc |-> 0, status |-> -1, out |-> <<>>, started |-> <<>>,
           results |-> [c \in 0..(COND_COUNT - 1) |-> NoResult]]

\* the harness before a call is set up
NoHarness ==
    [state |-> "idle", source |-> "none", condition |-> "none", func_idx |-> 0,
     size_idx |-> 0, r1 |-> 0, r2 |-> 0, func_name |-> <<>>, ir_count |-> 0,
     shadow_price |-> DZero, opt_level |-> 0, log_open |-> FALSE, ub |-> 0,
     inlined |-> -1, base_thresh |-> 0, adjusted_threshold |-> 0, log |-> <<>>]

ProgIdle ==
    /\ prog = NoProg
    /\ harness = NoHarness

NoPass == [valid |-> FALSE, seed |-> Bits32(0), trace |-> <<>>, ret |-> -1, m |-> <<>>]
NoHist == [caller |-> "none", run |-> 0, seed |-> Bits32(0), prev |-> NoPass]

PassIdle ==
    /\ m = <<>>
    /\ condition = COND_NO_INLINE
    /\ rng_state = Bits32(RANDOM_SEED)
    /\ chain = chain_decl
    /\ mutations = 0
    /\ pc = [state |-> "idle", item |-> 0, insn |-> 0]
    /\ ret = -1
    /\ dec = NoDecision
    /\ pass_profile = NoProfile
    /\ pass_unit = <<>>
    /\ before = [m |-> <<>>, rng_state |-> rng_state, chain |-> chain, mutations |-> 0]
    /\ trace = <<>>
    /\ hist = NoHist

CountOf(map, name) ==
    LET e == profile_map_get(map, name)
    IN  IF e = NoEntry THEN 0 ELSE map.entries[e].call_count

\* profile_map_increment(&profile, name), while name has fewer than limit calls
Increment(name, limit) ==
    /\ CountOf(profile, name) < limit
    /\ profile' = profile_map_increment(profile, name)
    /\ op' = [name |-> "increment", arg |-> name, divisions |-> 0, prev |-> op.name]
    /\ pre' = profile
    /\ dropped' = IF profile_map_get(profile', name) = NoEntry
                  THEN dropped \cup {name} ELSE dropped
    /\ UNCHANGED <<norm_last, norm_prev, thr>>
    /\ UNCHANGED passVars
    /\ UNCHANGED progVars

\* profile_map_normalize(&profile)
Normalize ==
    \E r \in {profile_map_normalize(profile)} :
        /\ profile' = r.map
        /\ op' = [name |-> "normalize", arg |-> NullName,
                  divisions |-> r.divisions, prev |-> op.name]
        /\ pre' = profile
        /\ norm_last' = r.map
        /\ norm_prev' = norm_last
        /\ UNCHANGED <<dropped, thr>>
        /\ UNCHANGED passVars
        /\ UNCHANGED progVars

\* a call compute_adjusted_threshold(price, inverted) whose arguments are set
Threshold ==
    /\ ~thr.called
    /\ \E ub \in UBInts :
         thr' = [thr EXCEPT !.ub = ub, !.called = TRUE,
                            !.result = compute_adjusted_threshold(thr.price, thr.inverted, ub)]
    /\ UNCHANGED storeVars
    /\ UNCHANGED passVars
    /\ UNCHANGED progVars

\* mutate_module(m, condition, profile, &rng_state) is entered on a module
\* just loaded, with *rng_state = rng
EnterPass(unit, cond, rng) ==
    /\ pc.state \in {"idle", "done"}
    /\ m' = unit
    /\ condition' = cond
    /\ rng_state' = rng
    /\ mutations' = 0
    /\ chain' = chain_init(chain_decl)
    /\ pc' = [state |-> "loop", item |-> 1, insn |-> 1]
    /\ ret' = -1
    /\ dec' = NoDecision
    /\ pass_profile' = profile
    /\ pass_unit' = unit
    /\ before' = [m |-> m', rng_state |-> rng_state', chain |-> chain', mutations |-> 0]
    /\ trace' = <<>>
    /\ UNCHANGED storeVars
    /\ UNCHANGED thr

\* a call of mutate_module with *rng_state = seed
StartPass(unit, cond, seed) ==
    /\ EnterPass(unit, cond, Bits32(seed))
    /\ UNCHANGED hist
    /\ UNCHANGED progVars

\* rng_state = RANDOM_SEED, the reset at the head of each run of
\* run_condition; run_seed_keep is the loop without it (a faulty variant)
run_seed_keep(rng) == rng
run_seed(rng) == Bits32(RANDOM_SEED)

\* what a finished pass left, for the caller's next pass to be compared with
Finished == [valid |-> pc.state = "done", seed |-> hist.seed, trace |-> trace,
             ret |-> ret, m |-> m]

\* run_condition(cond, &profile, out) is entered and starts run 0 on the unit
\* scanned from the IR: rng_state is set at its declaration and again at the
\* head of the run
RunCondition(unit, cond) ==
    /\ pc.state = "idle"
    /\ \E rng \in {run_seed(Bits32(RANDOM_SEED))} :
          /\ EnterPass(unit, cond, rng)
          /\ hist' = [caller |-> "run_condition", run |-> 1, seed |-> rng, prev |-> NoPass]
    /\ UNCHANGED progVars

\* the next run of run_condition: the same IR scanned into a fresh context,
\* the same condition
NextRun ==
    /\ pc.state = "done"
    /\ hist.caller = "run_condition"
    /\ hist.run < NUM_RUNS
    /\ \E rng \in {run_seed(rng_state)} :
          /\ EnterPass(pass_unit, condition, rng)
          /\ hist' = [caller |-> "run_condition", run |-> hist.run + 1, seed |-> rng,
                      prev |-> Finished]
    /\ UNCHANGED progVars

\* a caller other than run_condition runs a pass with a seed of its choice,
\* and then a second pass over the same unit under the same condition
DirectPass(unit, cond, seed) ==
    /\ pc.state = "idle"
    /\ EnterPass(unit, cond, Bits32(seed))
    /\ hist' = [caller |-> "direct", run |-> 1, seed |-> Bits32(seed), prev |-> NoPass]
    /\ UNCHANGED progVars

DirectAgain(seed) ==
    /\ pc.state = "done"
    /\ hist.caller = "direct"
    /\ hist.run = 1
    /\ EnterPass(pass_unit, condition, Bits32(seed))
    /\ hist' = [caller |-> "direct", run |-> hist.run + 1, seed |-> Bits32(seed),
                prev |-> Finished]
    /\ UNCHANGED progVars

\* the item loop moves on: the item is no function, or its instructions are done
NextItem ==
    /\ pc.state = "loop"
    /\ pc.item <= Len(m)
    /\ \/ m[pc.item].item_type # "MIR_func_item"
       \/ pc.insn > Len(m[pc.item].insns)
    /\ pc' = [pc EXCEPT !.item = @ + 1, !.insn = 1]
    /\ UNCHANGED <<m, condition, rng_state, chain, mutations, ret, dec, pass_profile,
                   pass_unit, before, trace, hist>>
    /\ UNCHANGED storeVars
    /\ UNCHANGED thr
    /\ UNCHANGED progVars

\* one iteration of the instruction loop
VisitInsn ==
    /\ pc.state = "loop"
    /\ pc.item <= Len(m)
    /\ m[pc.item].item_type = "MIR_func_item"
    /\ pc.insn <= Len(m[pc.item].insns)
    /\ \E ub \in UBInts :
         \E r \in {mutate_insn(m, condition, profile, rng_state, chain, mutations,
                               pc.item, pc.insn, ub)} :
             /\ m' = r.m
             /\ rng_state' = r.rng
             /\ chain' = r.chain
             /\ mutations' = r.mutations
             /\ dec' = r.dec
             /\ trace' = IF r.dec.kind = "not_call" THEN trace ELSE Append(trace, r.dec)
    /\ before' = [m |-> m, rng_state |-> rng_state, chain |-> chain,
                  mutations |-> mutations]
    /\ pc' = [pc EXCEPT !.insn = @ + 1]
    /\ UNCHANGED <<condition, ret, pass_profile, pass_unit, hist>>
    /\ UNCHANGED storeVars
    /\ UNCHANGED thr
    /\ UNCHANGED progVars

\* return mutations
Return ==
    /\ pc.state = "loop"
    /\ pc.item > Len(m)
    /\ ret' = mutations
    /\ pc' = [pc EXCEPT !.state = "done"]
    /\ UNCHANGED <<m, condition, rng_state, chain, mutations, dec, pass_profile,
                   pass_unit, before, trace, hist>>
    /\ UNCHANGED storeVars
    /\ UNCHANGED thr
    /\ UNCHANGED progVars

(***************************************************************************)
(* Spec: the Profile Store under any sequence of record and normalize      *)
(* calls.                                                                  *)
(***************************************************************************)
Init ==
    /\ StoreInit
    /\ PassIdle
    /\ ProgIdle
    /\ thr = NoCall

Next ==
    \/ \E name \in Names : Increment(name, MaxCount)
    \/ Normalize

Spec == Init /\ [][Next]_vars

(***************************************************************************)
(* SpecThreshold: compute_adjusted_threshold on a grid of prices: the      *)
(* doubles nearest to +-n/d, the infinities and a NaN.                     *)
(***************************************************************************)
MaxDen == 8
PriceGrid ==
    {DRat(s, n, d) : s \in {0, 1}, n \in 0..(MaxDen + 1), d \in 1..MaxDen}
        \cup {NaN, Inf(0), Inf(1)}

InitThreshold ==
    /\ StoreInit
    /\ PassIdle
    /\ ProgIdle
    /\ thr \in {[NoCall EXCEPT !.price = p, !.inverted = i] : p \in PriceGrid, i \in {0, 1}}

NextThreshold == Threshold

SpecThreshold == InitThreshold /\ [][NextThreshold]_vars

(***************************************************************************)
(* SpecScenario: the store of the scenario {hot: 1000 calls, cold: 1       *)
(* call}, normalized, and the thresholds of the two prices.                *)
(***************************************************************************)
HotCalls == 1000
ColdCalls == 1

ScenarioRecorded ==
    /\ CountOf(profile, "hot") = HotCalls
    /\ CountOf(profile, "cold") = ColdCalls

ScenarioNormalize == ScenarioRecorded /\ Normalize

ScenarioThreshold(name) ==
    /\ op.name = "normalize"
    /\ \E ub \in UBInts, price \in {lookup(profile, name)} :
         thr' = [price |-> price, inverted |-> 0, ub |-> ub, called |-> TRUE,
                 result |-> compute_adjusted_threshold(price, 0, ub)]
    /\ UNCHANGED storeVars
    /\ UNCHANGED passVars
    /\ UNCHANGED progVars

NextScenario ==
    \/ Increment("hot", HotCalls)
    \/ Increment("cold", ColdCalls)
    \/ ScenarioNormalize
    \/ \E name \in {"hot", "cold", "never_seen"} : ScenarioThreshold(name)

SpecScenario == Init /\ [][NextScenario]_vars

(***************************************************************************)
(* SpecMutate: mutation passes over the units, under every condition and   *)
(* seed, on stores that record and normalize calls produced.               *)
(***************************************************************************)
InitMutate ==
    /\ \E names \in RecordRuns :
         /\ profile = profile_map_normalize(Recorded(names)).map
         /\ pre = Recorded(names)
         /\ dropped = {names[k] : k \in DOMAIN names} \
                         {profile.entries[i].func_name : i \in 0..(profile.count - 1)}
    /\ op = [name |-> "normalize", arg |-> NullName, divisions |-> profile.count,
             prev |-> IF pre.count = 0 THEN "init" ELSE "increment"]
    /\ norm_last = profile
    /\ norm_prev = NoProfile
    /\ PassIdle
    /\ ProgIdle
    /\ thr = NoCall

NextMutate ==
    \/ \E unit \in Units, cond \in 0..(COND_COUNT - 1), seed \in Seeds :
          StartPass(unit, cond, seed)
    \/ NextItem
    \/ VisitInsn
    \/ Return

SpecMutate == InitMutate /\ [][NextMutate]_vars

(***************************************************************************)
(* SpecRuns: repeated passes over one unit under one condition: the runs   *)
(* of run_condition (NUM_RUNS is 20 in the program and scaled down here),  *)
(* and the passes of a caller that picks the seed of each.                 *)
(***************************************************************************)
NextRuns ==
    \/ \E unit \in Units, cond \in 0..(COND_COUNT - 1) : RunCondition(unit, cond)
    \/ NextRun
    \/ \E unit \in Units, cond \in 0..(COND_COUNT - 1), seed \in Seeds :
          DirectPass(unit, cond, seed)
    \/ \E seed \in Seeds : DirectAgain(seed)
    \/ NextItem
    \/ VisitInsn
    \/ Return

SpecRuns == InitMutate /\ [][NextRuns]_vars

(***************************************************************************)
(* SpecHarness: calls of should_inline_with_num_v2, as an iteration of     *)
(* run_experiment makes them (the price from get_shadow_price, the size    *)
(* from sizes[]) and with arguments of any caller: every integer price up  *)
(* to MaxPrice and some beyond, the sizes of the harness and the sizes     *)
(* next to the threshold of the price.                                     *)
(***************************************************************************)
MaxPrice == 120
MaxRand == 10
HarnessConditions == {"baseline", "uniform", "skewed", "perturbed", "other"}
FuncIdxs == {0, 1, NUM_FUNCS - 1}
\* values of rand(): the first of a call up to RAND_MAX, the second small
FirstRands == {0, 200, 400, INT_MAX}
SecondRands == 0..MaxRand
DirectPrices == {DInt(n) : n \in 0..MaxPrice \cup {499, 500, 501, 2000}}

\* the sizes a direct call is made with
IrCounts(price, opt) ==
    LET t == should_inline_with_num_v2(<<>>, 0, price, opt, 0).adjusted_threshold
    IN  {sizes[k] : k \in 1..NUM_SIZES} \cup {t - 1, t}

InitHarness ==
    /\ StoreInit
    /\ PassIdle
    /\ prog = NoProg
    /\ thr = NoCall
    /\ \/ \E c \in HarnessConditions, fi \in FuncIdxs, si \in 0..(NUM_SIZES - 1),
             opt \in 0..(NUM_OPT_LEVELS - 1), open \in BOOLEAN :
             \E r1 \in IF c = "perturbed" THEN FirstRands ELSE {0},
                r2 \in IF c = "perturbed" THEN SecondRands ELSE {0} :
                harness = [NoHarness EXCEPT !.state = "args", !.source = "run_experiment",
                                            !.condition = c, !.func_idx = fi,
                                            !.size_idx = si, !.r1 = r1, !.r2 = r2,
                                            !.opt_level = opt, !.log_open = open]
       \/ \E price \in DirectPrices, opt \in 0..(NUM_OPT_LEVELS - 1) :
             \E n \in IrCounts(price, opt) :
                harness = [NoHarness EXCEPT !.state = "priced", !.source = "direct",
                                            !.shadow_price = price, !.ir_count = n,
                                            !.opt_level = opt, !.log_open = TRUE]

\* an iteration of the loops of run_experiment up to the call: the size, the
\* price and the name of the function
GetShadowPrice ==
    /\ harness.state = "args"
    /\ \E price \in {get_shadow_price(harness.condition, harness.func_idx,
                                       harness.size_idx, harness.r1, harness.r2)} :
          harness' = [harness EXCEPT
                        !.state = "priced",
                        !.ir_count = sizes[harness.size_idx + 1],
                        !.shadow_price = price,
                        !.func_name = <<harness.func_idx, sizes[harness.size_idx + 1],
                                        harness.opt_level>>]
    /\ UNCHANGED <<storeVars, passVars, thr, prog>>

\* the call should_inline_with_num_v2(func_name, ir_count, shadow_price,
\* opt_level)
ShouldInline ==
    /\ harness.state = "priced"
    /\ \E ub \in UBInts :
         \E r \in {should_inline_with_num_v2(harness.func_name, harness.ir_count,
                                             harness.shadow_price, harness.opt_level, ub)} :
             harness' = [harness EXCEPT
                           !.state = "returned",
                           !.ub = ub,
                           !.inlined = r.inlined,
                           !.base_thresh = r.base_thresh,
                           !.adjusted_threshold = r.adjusted_threshold,
                           !.log = IF harness.log_open
                                   THEN Append(@, log_row(harness.func_name, harness.ir_count,
                                                          harness.shadow_price,
                                                          harness.opt_level, r))
                                   ELSE @]
    /\ UNCHANGED <<storeVars, passVars, thr, prog>>

NextHarness ==
    \/ GetShadowPrice
    \/ ShouldInline

SpecHarness == InitHarness /\ [][NextHarness]_vars

(***************************************************************************)
(* SpecMain: the program from the first line of main to its exit.  The     *)
(* store has the capacity of the program here, the seeding loops run their *)
(* 1000, 100 and 1 iterations one step each, and every condition makes     *)
(* NUM_RUNS runs over the benchmark unit.  MIR_link either leaves driver   *)
(* with a compiled address or without one.  A compilation context is a     *)
(* record of its identity and whether its generator is initialised;        *)
(* prog.live is the set of contexts created and not yet finished.          *)
(***************************************************************************)
ProgramMapSize == 256

\* memset(map, 0, sizeof(*map)) on the profile_map_t of the program
program_map_init ==
    [entries |-> [i \in 0..(ProgramMapSize - 1) |-> ZeroEntry],
     count |-> 0, max_count |-> DZero]

\* profile_map_increment on the profile_map_t of the program
program_map_increment(map, name) ==
    LET e == profile_map_get(map, name)
    IN  IF e # NoEntry
        THEN [map EXCEPT !.entries[e].call_count = @ + 1]
        ELSE IF map.count < ProgramMapSize
        THEN [map EXCEPT !.entries[map.count] =
                             [func_name |-> name, call_count |-> 1, shadow_price |-> DZero],
                         !.count = @ + 1]
        ELSE map

\* the loops and calls that seed the store: the callee and the iterations
SeedLoops ==
    << [name |-> "f_hot1", n |-> 1000], [name |-> "f_hot2", n |-> 1000],
       [name |-> "f_hot3", n |-> 1000], [name |-> "f_hot4", n |-> 1000],
       [name |-> "f_warm1", n |-> 100], [name |-> "f_warm2", n |-> 100],
       [name |-> "f_cold1", n |-> 1], [name |-> "f_cold2", n |-> 1] >>

Export(name) == [item_type |-> "MIR_export_item", name |-> name, insns |-> <<>>]

\* the module m_bench of benchmark_ir, as MIR_scan_string and
\* MIR_load_module leave it: an export, eight prototypes, eight callees and
\* the driver with one call site to each callee; ops[1] of a call is the
\* function item of the callee
BenchUnit ==
    << Export("driver"),
       Proto("p_f_hot1"), Proto("p_f_hot2"), Proto("p_f_hot3"), Proto("p_f_hot4"),
       Proto("p_f_warm1"), Proto("p_f_warm2"), Proto("p_f_cold1"), Proto("p_f_cold2"),
       Func("f_hot1", <<Other(55)>>), Func("f_hot2", <<Other(75)>>),
       Func("f_hot3", <<Other(100)>>), Func("f_hot4", <<Other(60)>>),
       Func("f_warm1", <<Other(80)>>), Func("f_warm2", <<Other(120)>>),
       Func("f_cold1", <<Other(150)>>), Func("f_cold2", <<Other(180)>>),
       Func("driver", <<Other(4), Call(10), Call(11), Other(1), Call(12), Other(1),
                        Call(13), Other(3), Call(14), Other(1), Call(15), Other(4),
                        Call(16), Other(1), Call(17), Other(6)>>) >>

\* a line of output: the stream, what it reports and two of its numbers
Line(stream, text, a, b) == [stream |-> stream, text |-> text, a |-> a, b |-> b]

\* MIR_init(): a fresh context, which becomes the current one
MIR_init(p) ==
    [p EXCEPT !.created = @ + 1, !.ctx = p.created + 1,
              !.live = @ \cup {[id |-> p.created + 1, gen |-> FALSE]}]

\* MIR_gen_init(ctx) and MIR_gen_finish(ctx) on the current context
MIR_gen_init(p) ==
    [p EXCEPT !.live = {IF x.id = p.ctx THEN [x EXCEPT !.gen = TRUE] ELSE x : x \in @}]

MIR_gen_finish(p) ==
    [p EXCEPT !.live = {IF x.id = p.ctx THEN [x EXCEPT !.gen = FALSE] ELSE x : x \in @}]

\* MIR_finish(ctx) on the current context
MIR_finish(p) == [p EXCEPT !.live = {x \in @ : x.id # p.ctx}]

\* memset(out, 0, sizeof(*out))
ClearedResult == [valid |-> TRUE, mutations |-> 0, timed |-> 0, result_set |-> FALSE,
                  stats |-> FALSE]

\* the search for driver: the first function item of that name, or NULL
find_driver(mod) ==
    LET hits == {i \in DOMAIN mod : mod[i].item_type = "MIR_func_item"
                                      /\ mod[i].name = "driver"}
    IN  IF hits = {} THEN NullRef ELSE CHOOSE i \in hits : \A j \in hits : i <= j

\* the failure branch of run_condition returning with the context still
\* live (a faulty variant)
driver_missing_leak(p) ==
    [p EXCEPT !.out = Append(@, Line("stderr", "ERROR: Could not find/compile 'driver'",
                                     p.c, p.run)),
              !.rc = -1, !.pc = "returned"]

\* the failure branch of run_condition: the message, the teardown, return -1
driver_missing(p) ==
    [MIR_finish(MIR_gen_finish(p)) EXCEPT
        !.out = Append(@, Line("stderr", "ERROR: Could not find/compile 'driver'",
                               p.c, p.run)),
        !.rc = -1, !.pc = "returned"]

\* main going on to the next condition whatever run_condition returned (a
\* faulty variant)
after_run_condition_ignore(p) ==
    [p EXCEPT !.out = Append(@, Line("stdout", "done", p.c, p.results[p.c].mutations)),
              !.c = @ + 1, !.pc = "cond"]

\* main after run_condition returned: FAILED and return 1, or the line of
\* the condition and the next iteration
after_run_condition(p) ==
    IF p.rc # 0
    THEN [p EXCEPT !.out = Append(@, Line("stderr", "FAILED!", p.c, 0)),
                   !.status = 1, !.pc = "exit"]
    ELSE [p EXCEPT !.out = Append(@, Line("stdout", "done", p.c, p.results[p.c].mutations)),
                   !.c = @ + 1, !.pc = "cond"]

InitMain ==
    /\ profile = NoProfile
    /\ op = [name |-> "none", arg |-> NullName, divisions |-> 0, prev |-> "none"]
    /\ pre = NoProfile
    /\ norm_last = NoProfile
    /\ norm_prev = NoProfile
    /\ dropped = {}
    /\ PassIdle
    /\ thr = NoCall
    /\ harness = NoHarness
    /\ prog = [NoProg EXCEPT !.pc = "start"]

\* main up to profile_map_init: the banner, prof_ctx and the scan of the IR
MainStart ==
    /\ prog.pc = "start"
    /\ prog' = [MIR_init(prog) EXCEPT !.out = Append(@, Line("stdout", "banner", 0, 0)),
                                      !.pc = "seed", !.k = 1, !.i = 0]
    /\ profile' = program_map_init
    /\ op' = [name |-> "init", arg |-> NullName, divisions |-> 0, prev |-> op.name]
    /\ pre' = profile
    /\ UNCHANGED <<norm_last, norm_prev, dropped, thr, harness>>
    /\ UNCHANGED passVars

\* one iteration of a seeding loop, or one of the two single calls
MainSeed ==
    /\ prog.pc = "seed"
    /\ \E loop \in {SeedLoops[prog.k]} :
         /\ profile' = program_map_increment(profile, loop.name)
         /\ op' = [name |-> "increment", arg |-> loop.name, divisions |-> 0,
                   prev |-> op.name]
         /\ dropped' = IF profile_map_get(profile', loop.name) = NoEntry
                       THEN dropped \cup {loop.name} ELSE dropped
         /\ prog' = IF prog.i + 1 < loop.n THEN [prog EXCEPT !.i = @ + 1]
                    ELSE IF prog.k < Len(SeedLoops)
                    THEN [prog EXCEPT !.k = @ + 1, !.i = 0]
                    ELSE [prog EXCEPT !.i = 0, !.pc = "normalize"]
    /\ pre' = profile
    /\ UNCHANGED <<norm_last, norm_prev, thr, harness>>
    /\ UNCHANGED passVars

\* profile_map_normalize, profile_map_print and MIR_finish(prof_ctx)
MainNormalize ==
    /\ prog.pc = "normalize"
    /\ \E r \in {profile_map_normalize(profile)} :
         /\ profile' = r.map
         /\ op' = [name |-> "normalize", arg |-> NullName, divisions |-> r.divisions,
                   prev |-> op.name]
         /\ norm_last' = r.map
         /\ prog' = [MIR_finish(prog) EXCEPT
                        !.out = Append(@, Line("stdout", "Shadow Prices", r.map.count, 0)),
                        !.pc = "sizes"]
    /\ pre' = profile
    /\ norm_prev' = norm_last
    /\ UNCHANGED <<dropped, thr, harness>>
    /\ UNCHANGED passVars

\* tmp_ctx is created and the IR scanned into it
MainSizesInit ==
    /\ prog.pc = "sizes"
    /\ prog' = [MIR_init(prog) EXCEPT !.pc = "sizes_loop"]
    /\ UNCHANGED <<thr, harness>>
    /\ UNCHANGED storeVars
    /\ UNCHANGED passVars

\* the size of every function item is printed and tmp_ctx is finished
MainSizesFinish ==
    /\ prog.pc = "sizes_loop"
    /\ \E funcs \in {SelectSeq(BenchUnit, LAMBDA item : item.item_type = "MIR_func_item")} :
         prog' = [MIR_finish(prog) EXCEPT
                     !.out = @ \o [k \in DOMAIN funcs |->
                                     Line("stdout", funcs[k].name,
                                          count_func_insns(funcs[k]), 0)],
                     !.pc = "thresholds"]
    /\ UNCHANGED <<thr, harness>>
    /\ UNCHANGED storeVars
    /\ UNCHANGED passVars

\* the two thresholds of every entry of the store are printed, then the
\* heading of the conditions
MainThresholds ==
    /\ prog.pc = "thresholds"
    /\ \E ub \in UBInts :
         prog' = [prog EXCEPT
                     !.out = @ \o [k \in 1..profile.count |->
                                     Line("stdout", profile.entries[k - 1].func_name,
                                          compute_adjusted_threshold(
                                              profile.entries[k - 1].shadow_price, 0, ub),
                                          compute_adjusted_threshold(
                                              profile.entries[k - 1].shadow_price, 1, ub))],
                     !.c = 0, !.pc = "cond"]
    /\ UNCHANGED <<thr, harness>>
    /\ UNCHANGED storeVars
    /\ UNCHANGED passVars

\* an iteration of the condition loop calls run_condition, which clears
\* *out and declares rng_state
CondBegin ==
    /\ prog.pc = "cond"
    /\ prog.c < COND_COUNT
    /\ prog' = [prog EXCEPT !.out = Append(@, Line("stdout", "Condition", prog.c, 0)),
                            !.results[prog.c] = ClearedResult,
                            !.started = Append(@, prog.c),
                            !.run = 0, !.pc = "run"]
    /\ rng_state' = Bits32(RANDOM_SEED)
    /\ UNCHANGED <<m, condition, chain, mutations, pc, ret, dec, pass_profile,
                   pass_unit, before, trace, hist>>
    /\ UNCHANGED <<thr, harness>>
    /\ UNCHANGED storeVars

\* a run begins: a fresh context with its generator, the IR scanned and
\* loaded, rng_state reset, mutate_module entered
RunBegin ==
    /\ prog.pc = "run"
    /\ prog.run < NUM_RUNS
    /\ \E rng \in {run_seed(rng_state)} :
          /\ EnterPass(BenchUnit, prog.c, rng)
          /\ hist' = [caller |-> "run_condition", run |-> prog.run + 1, seed |-> rng,
                      prev |-> IF prog.run = 0 THEN NoPass ELSE Finished]
    /\ prog' = [MIR_gen_init(MIR_init(prog)) EXCEPT !.pc = "pass"]
    /\ UNCHANGED harness

\* mutate_module has returned: the count of run 0 is kept, the module is
\* linked and driver looked up; without driver or its address the run fails
RunLink ==
    /\ prog.pc = "pass"
    /\ pc.state = "done"
    /\ \E addr \in {NullRef, 1}, d \in {find_driver(m)} :
         \E p \in {IF prog.run = 0 THEN [prog EXCEPT !.results[prog.c].mutations = ret]
                   ELSE prog} :
            prog' = IF d = NullRef \/ addr = NullRef THEN driver_missing(p)
                    ELSE [p EXCEPT !.pc = "timed"]
    /\ UNCHANGED <<thr, harness>>
    /\ UNCHANGED storeVars
    /\ UNCHANGED passVars

\* warmup, the timed call, times[run], the result of run 0, the teardown
RunTimed ==
    /\ prog.pc = "timed"
    /\ prog' = [MIR_finish(MIR_gen_finish(prog)) EXCEPT
                   !.results[prog.c].timed = @ + 1,
                   !.results[prog.c].result_set = (@ \/ prog.run = 0),
                   !.run = @ + 1, !.pc = "run"]
    /\ UNCHANGED <<thr, harness>>
    /\ UNCHANGED storeVars
    /\ UNCHANGED passVars

\* the run loop is over: mean and standard deviation, return 0
RunsDone ==
    /\ prog.pc = "run"
    /\ prog.run >= NUM_RUNS
    /\ prog' = [prog EXCEPT !.results[prog.c].stats = TRUE, !.rc = 0, !.pc = "returned"]
    /\ UNCHANGED <<thr, harness>>
    /\ UNCHANGED storeVars
    /\ UNCHANGED passVars

\* main looks at what run_condition returned
AfterCondition ==
    /\ prog.pc = "returned"
    /\ prog' = after_run_condition(prog)
    /\ UNCHANGED <<thr, harness>>
    /\ UNCHANGED storeVars
    /\ UNCHANGED passVars

\* the condition loop is over: the summary, the predictions, the raw data,
\* return 0
MainSummary ==
    /\ prog.pc = "cond"
    /\ prog.c >= COND_COUNT
    /\ prog' = [prog EXCEPT !.out = Append(@, Line("stdout", "RESULTS SUMMARY", 0, 0)),
                            !.status = 0, !.pc = "exit"]
    /\ UNCHANGED <<thr, harness>>
    /\ UNCHANGED storeVars
    /\ UNCHANGED passVars

NextMain ==
    \/ MainStart
    \/ MainSeed
    \/ MainNormalize
    \/ MainSizesInit
    \/ MainSizesFinish
    \/ MainThresholds
    \/ CondBegin
    \/ RunBegin
    \/ NextItem
    \/ VisitInsn
    \/ Return
    \/ RunLink
    \/ RunTimed
    \/ RunsDone
    \/ AfterCondition
    \/ MainSummary

SpecMain == InitMain /\ [][NextMain]_vars

(***************************************************************************)
(* Properties of compute_adjusted_threshold, under SpecThreshold.          *)
(***************************************************************************)

\* C1: every call of compute_adjusted_threshold, for a price inside or
\* outside [0,1] and either value of inverted, returns an integer in
\* [THRESHOLD_FLOOR, MIR_INLINE_THRESHOLD] = [5, 200].
C1_ThresholdInRange ==
    thr.called =>
        /\ thr.result \in Int
        /\ THRESHOLD_FLOOR <= thr.result
        /\ thr.result <= MIR_INLINE_THRESHOLD

\* a call with a price above 1 that the last clamp brings down to the ceiling
C1_Witness ==
    /\ thr.called
    /\ thr.price = DRat(0, MaxDen + 1, MaxDen)
    /\ thr.inverted = 0
    /\ thr.result = MIR_INLINE_THRESHOLD

\* the reference formula of C2 evaluated in binary64, operation by operation
\* as written: p' = inverted ? 1 - price : price; scale = 0.1 + p' * 4.9
\* clamped to [0.1, 5.0]; (int)(50 * scale) clamped to [5, 200]
RefDouble(price, inverted, ub) ==
    LET p1     == IF inverted # 0 THEN DSub(DInt(1), price) ELSE price
        raw    == DAdd(DRat(0, 1, 10), DMul(p1, DRat(0, 49, 10)))
        scale  == IF DLt(raw, DRat(0, 1, 10)) THEN DRat(0, 1, 10)
                  ELSE IF DGt(raw, DInt(5)) THEN DInt(5) ELSE raw
        t      == CastInt(DMul(DInt(50), scale), ub)
    IN  IF t < 5 THEN 5 ELSE IF t > 200 THEN 200 ELSE t

\* the reference formula of C2 in exact arithmetic at the exact value of a
\* price that is no NaN: with c the value of p' clamped to [0,1], the scale
\* is (1 + 49c)/10 and the result min(200, 5 + floor(245c))
RefReal(price, inverted) ==
    LET one  == DInt(1).m
        \* p' as a sign and a magnitude in units of 2^-FracBits; an infinity
        \* is beyond either end of [0,1]
        big  == BShl(one, 1)
        ps   == IF price.k = "inf" THEN [s |-> price.s, m |-> big]
                ELSE [s |-> price.s, m |-> price.m]
        inv  == IF ps.s = 1 THEN [s |-> 0, m |-> BAdd(one, ps.m)]
                ELSE IF BCmp(ps.m, one) <= 0 THEN [s |-> 0, m |-> BSub(one, ps.m)]
                ELSE [s |-> 1, m |-> BSub(ps.m, one)]
        p1   == IF inverted # 0 THEN inv ELSE ps
        c    == IF p1.s = 1 THEN <<>>
                ELSE IF BCmp(p1.m, one) > 0 THEN one ELSE p1.m
        t    == 5 + BToNat(BShrSticky(BMulSmall(c, 245), FracBits).q)
    IN  IF t > 200 THEN 200 ELSE t

DLe(p, q) == ~DGt(p, q)

\* the prices of the grid that lie in [0,1]
UnitPrices == {q \in PriceGrid : q.k = "fin" /\ DLe(DZero, q) /\ DLe(q, DInt(1))}

\* C3: for prices p <= q in [0,1] the threshold of p is at most that of q
\* when not inverted, and at least that of q when inverted.
C3_Monotone ==
    (thr.called /\ thr.price \in UnitPrices) =>
        \A q \in UnitPrices :
            LET tq == compute_adjusted_threshold(q, thr.inverted, thr.ub)
            IN  /\ (DLe(thr.price, q) /\ thr.inverted = 0) => thr.result <= tq
                /\ (DLe(thr.price, q) /\ thr.inverted # 0) => thr.result >= tq
                /\ (DLe(q, thr.price) /\ thr.inverted = 0) => tq <= thr.result
                /\ (DLe(q, thr.price) /\ thr.inverted # 0) => tq >= thr.result

\* an inverted call at 1/2, strictly between the thresholds of 0 and 1
C3_Witness ==
    /\ thr.called
    /\ thr.price = DRat(0, 1, 2)
    /\ thr.inverted = 1
    /\ thr.result < compute_adjusted_threshold(DZero, 1, thr.ub)
    /\ thr.result > compute_adjusted_threshold(DInt(1), 1, thr.ub)

\* the formula of the comment above compute_adjusted_threshold, in binary64:
\* lambda' = inverted ? 1.0 - lambda : lambda; scale = clamp(lambda', 0.1,
\* 5.0); T_adj = clamp(50 * scale, 5, 200)
DocFormula(price, inverted, ub) ==
    LET p1    == IF inverted # 0 THEN DSub(DInt(1), price) ELSE price
        scale == IF DLt(p1, DRat(0, 1, 10)) THEN DRat(0, 1, 10)
                 ELSE IF DGt(p1, DInt(5)) THEN DInt(5) ELSE p1
        t     == CastInt(DMul(DInt(50), scale), ub)
    IN  IF t < 5 THEN 5 ELSE IF t > 200 THEN 200 ELSE t

Slots(map, name) == {i \in 0..(map.count - 1) : map.entries[i].func_name = name}

\* the largest call_count of the live entries of a store that has some
MaxCalls(map) ==
    CHOOSE c \in {map.entries[i].call_count : i \in 0..(map.count - 1)} :
        \A i \in 0..(map.count - 1) : map.entries[i].call_count <= c

C5_NormalizedPrices ==
    op.name = "normalize" =>
        /\ profile.count > 0 =>
              \A i \in 0..(profile.count - 1) :
                  profile.entries[i].shadow_price =
                      DRat(0, profile.entries[i].call_count, MaxCalls(profile))
        /\ pre.count = 0 =>
              /\ profile.entries = pre.entries
              /\ profile.count = 0
              /\ op.divisions = 0

\* a normalized store of two entries, one at price 1/2
C5_Witness ==
    /\ op.name = "normalize"
    /\ profile.count = 2
    /\ \E i \in 0..1 : profile.entries[i].shadow_price = DRat(0, 1, 2)
    /\ \E i \in 0..1 : profile.entries[i].shadow_price = DInt(1)

\* C6: a profile_map_normalize right after a profile_map_normalize leaves
\* every shadow_price, every call_count and the entry count as they were.
C6_NormalizeIdempotent ==
    (op.name = "normalize" /\ op.prev = "normalize") =>
        /\ profile.count = pre.count
        /\ \A i \in DOMAIN profile.entries :
              /\ profile.entries[i].shadow_price = pre.entries[i].shadow_price
              /\ profile.entries[i].call_count = pre.entries[i].call_count
              /\ profile.entries[i].func_name = pre.entries[i].func_name

\* a second normalize in a row on a store with a price strictly inside (0,1)
C6_Witness ==
    /\ op.name = "normalize"
    /\ op.prev = "normalize"
    /\ \E i \in 0..(profile.count - 1) : profile.entries[i].shadow_price = DRat(0, 1, 2)

\* C7 as stated: after normalize, record calls, normalize, every entry whose
\* call_count the record calls left alone has the price the first normalize
\* gave it.
C7_Original ==
    (op.name = "normalize" /\ norm_prev # NoProfile) =>
        \A i \in 0..(norm_prev.count - 1) :
            profile.entries[i].call_count = norm_prev.entries[i].call_count =>
                profile.entries[i].shadow_price = norm_prev.entries[i].shadow_price

\* C7, amended: the same, provided the largest call_count of the store
\* (max_count) is the same at both normalize calls.
C7_UnchangedIfSameMax ==
    (op.name = "normalize" /\ norm_prev # NoProfile
       /\ profile.max_count = norm_prev.max_count) =>
        \A i \in 0..(norm_prev.count - 1) :
            profile.entries[i].call_count = norm_prev.entries[i].call_count =>
                profile.entries[i].shadow_price = norm_prev.entries[i].shadow_price

\* two normalize calls with the same maximum, records in between that
\* changed one entry and left another, priced 1.0, alone
C7_Witness ==
    /\ op.name = "normalize"
    /\ norm_prev # NoProfile
    /\ profile.max_count = norm_prev.max_count
    /\ norm_prev.count = 2
    /\ \E i, j \in 0..1 :
          /\ profile.entries[i].call_count = norm_prev.entries[i].call_count
          /\ profile.entries[i].shadow_price = DInt(1)
          /\ profile.entries[j].call_count > norm_prev.entries[j].call_count

\* C9: profile_map_increment(name) on a name in the store adds 1 to that
\* entry's call_count; on a new name with room left it appends one entry
\* with call_count 1 and shadow_price 0.0; either way no existing entry's
\* shadow_price and no other entry's call_count changes.
C9_IncrementFrame ==
    op.name = "increment" =>
        LET hit == Slots(pre, op.arg)
        IN  /\ \A i \in 0..(pre.count - 1) :
                  /\ profile.entries[i].shadow_price = pre.entries[i].shadow_price
                  /\ profile.entries[i].func_name = pre.entries[i].func_name
                  /\ i \notin hit =>
                        profile.entries[i].call_count = pre.entries[i].call_count
            /\ profile.max_count = pre.max_count
            /\ hit # {} =>
                  /\ Cardinality(hit) = 1
                  /\ \A i \in hit :
                        profile.entries[i].call_count = pre.entries[i].call_count + 1
                  /\ profile.count = pre.count
                  /\ \A i \in DOMAIN profile.entries :
                        i >= pre.count => profile.entries[i] = pre.entries[i]
            /\ (hit = {} /\ pre.count < PROFILE_MAP_SIZE) =>
                  /\ profile.count = pre.count + 1
                  /\ profile.entries[pre.count] =
                         [func_name |-> op.arg, call_count |-> 1, shadow_price |-> DZero]
                  /\ \A i \in DOMAIN profile.entries :
                        i > pre.count => profile.entries[i] = pre.entries[i]

\* an increment of a present name in a normalized store holding a price 1/2
C9_Witness ==
    /\ op.name = "increment"
    /\ Slots(pre, op.arg) # {}
    /\ profile.count = 2
    /\ \E i \in 0..1 : profile.entries[i].shadow_price = DRat(0, 1, 2)
    /\ \E i \in 0..1 : profile.entries[i].call_count = pre.entries[i].call_count + 1

\* C10: on a store that holds PROFILE_MAP_SIZE entries an increment of a
\* name not in it changes nothing and writes no slot outside the array, an
\* increment of a present name still counts, and a dropped name is looked
\* up as 0.0 ever after.
C10_FullStore ==
    /\ DOMAIN profile.entries = 0..(PROFILE_MAP_SIZE - 1)
    /\ profile.count <= PROFILE_MAP_SIZE
    /\ (op.name = "increment" /\ pre.count = PROFILE_MAP_SIZE) =>
          /\ Slots(pre, op.arg) = {} => profile = pre
          /\ \A i \in Slots(pre, op.arg) :
                profile.entries[i].call_count = pre.entries[i].call_count + 1
    /\ \A name \in dropped :
          /\ Slots(profile, name) = {}
          /\ lookup(profile, name) = DZero

\* a full store, just after it dropped a new name
C10_Witness ==
    /\ op.name = "increment"
    /\ pre.count = PROFILE_MAP_SIZE
    /\ Slots(pre, op.arg) = {}
    /\ op.arg \in dropped
    /\ profile = pre
    /\ lookup(profile, op.arg) = DZero

\* C11: in every state reached from profile_map_init by increment and
\* normalize calls in any order, every entry's shadow_price lies in [0, 1],
\* stale prices after increments that follow a normalize included.
C11_PriceInUnitInterval ==
    \A i \in DOMAIN profile.entries :
        /\ profile.entries[i].shadow_price.k = "fin"
        /\ DLe(DZero, profile.entries[i].shadow_price)
        /\ DLe(profile.entries[i].shadow_price, DInt(1))

\* an increment after a normalize has left a stale price strictly inside
\* (0,1) on an entry whose call_count is now the largest of the store
C11_Witness ==
    /\ op.name = "increment"
    /\ \E i \in 0..(profile.count - 1) :
          /\ profile.entries[i].func_name = op.arg
          /\ profile.entries[i].shadow_price = DRat(0, 1, 2)
          /\ profile.entries[i].call_count = MaxCalls(profile)

(***************************************************************************)
(* Properties of the mutation pass, under SpecMutate.                      *)
(***************************************************************************)

Promoted == {k \in DOMAIN trace : trace[k].should_promote # 0}

\* the names the chain holds
ChainNames(c) == {c.names[i] : i \in 0..(c.depth - 1)}

\* item i of the unit has a call instruction whose callee is item j
Calls(unit, i, j) ==
    /\ unit[i].item_type = "MIR_func_item"
    /\ \E n \in DOMAIN unit[i].insns :
          unit[i].insns[n].code = "MIR_CALL" /\ unit[i].insns[n].ref = j

\* the unit has a function that calls itself, or two that call each other
HasCycle(unit) ==
    \E i, j \in DOMAIN unit : Calls(unit, i, j) /\ Calls(unit, j, i)

\* C12: in a pass over a unit with a self-call or a two-function cycle, no
\* callee name is promoted at more than one call site, whatever the
\* condition, profile and seed.
C12_OnePromotionPerName ==
    (pc.state # "idle" /\ HasCycle(pass_unit)) =>
        \A k1, k2 \in Promoted :
            trace[k1].callee_name = trace[k2].callee_name => k1 = k2

\* C20: at every point of a pass the chain holds exactly the callee names
\* promoted so far in the pass, for units of any size.
C20_ChainIsPromotedSet ==
    pc.state # "idle" =>
        ChainNames(chain) = {trace[k].callee_name : k \in Promoted}

\* the last iteration of the instruction loop was at a call instruction
SiteVisited == dec.kind \notin {"none", "not_call"}

\* the instruction the last iteration was at, as the iteration found it
Site == before.m[dec.item].insns[dec.insn]

\* the last iteration was at a plain call whose callee is a function item
SiteResolved ==
    /\ SiteVisited
    /\ Site.code = "MIR_CALL"
    /\ Site.ref # NullRef
    /\ before.m[Site.ref].item_type = "MIR_func_item"

\* the last iteration left the module, the counter, the chain and the
\* generator state as it found them
SiteSkipped ==
    /\ m = before.m
    /\ m[dec.item].insns[dec.insn].code = "MIR_CALL"
    /\ mutations = before.mutations
    /\ chain = before.chain
    /\ rng_state = before.rng_state

\* C13: a call site whose callee name is in the chain when the pass reaches
\* it is skipped before the condition is looked at: it stays a plain call,
\* the counter and the chain are unchanged and the generator state is not
\* advanced, under every condition.
C13_ChainedSiteSkipped ==
    (SiteResolved /\ before.m[Site.ref].name \in ChainNames(before.chain)) =>
        /\ dec.kind = "in_chain"
        /\ dec.should_promote = 0
        /\ SiteSkipped

\* under Random-50%, after a promotion, a site of a chained callee is passed
C13_Witness ==
    /\ SiteResolved
    /\ condition = COND_RANDOM_50
    /\ before.mutations > 0
    /\ before.m[Site.ref].name \in ChainNames(before.chain)
    /\ rng_state = before.rng_state
    /\ rng_state # Bits32(RANDOM_SEED)
    /\ dec.kind = "in_chain"

\* the last iteration was at a plain call to a function item whose name was
\* not in the chain: a site the condition decides
SiteDecidable ==
    /\ SiteResolved
    /\ before.m[Site.ref].name \notin ChainNames(before.chain)

\* the last iteration promoted its call site
SitePromoted ==
    /\ m = [before.m EXCEPT ![dec.item].insns[dec.insn].code = "MIR_INLINE"]
    /\ mutations = before.mutations + 1

\* the call instructions of the unit that the pass has turned into inline
\* candidates so far
Changed ==
    {ij \in UNION {{<<i, j>> : j \in DOMAIN pass_unit[i].insns} : i \in DOMAIN pass_unit} :
        /\ pass_unit[ij[1]].insns[ij[2]].code = "MIR_CALL"
        /\ m[ij[1]].insns[ij[2]].code = "MIR_INLINE"}

\* C14: under No-inline the pass changes no instruction and returns 0,
\* also for units with calls that resolve.
C14_NoInlineChangesNothing ==
    (pc.state # "idle" /\ condition = COND_NO_INLINE) =>
        /\ m = pass_unit
        /\ mutations = 0
        /\ pc.state = "done" => ret = 0

\* a finished No-inline pass that went over sites the condition decided
C14_Witness ==
    /\ pc.state = "done"
    /\ condition = COND_NO_INLINE
    /\ ret = 0
    /\ \E k \in DOMAIN trace : trace[k].kind = "decided"
    /\ \E i \in DOMAIN pass_unit : \E j \in DOMAIN pass_unit :
          Calls(pass_unit, i, j) /\ pass_unit[j].item_type = "MIR_func_item"

\* C15: under Inline-all every plain call to a function item whose name is
\* not in the chain when the pass reaches it is promoted, and the count the
\* pass returns is the number of these sites.
C15_InlineAllPromotes ==
    (pc.state # "idle" /\ condition = COND_BLIND_ALL) =>
        /\ SiteDecidable => (SitePromoted /\ dec.should_promote = 1)
        /\ mutations = Cardinality({k \in DOMAIN trace : trace[k].kind = "decided"})
        /\ mutations = Cardinality(Changed)
        /\ pc.state = "done" => ret = mutations

\* a finished Inline-all pass that promoted several sites and passed a
\* chained one
C15_Witness ==
    /\ pc.state = "done"
    /\ condition = COND_BLIND_ALL
    /\ ret >= 2
    /\ ret = Cardinality(Changed)
    /\ \E k \in DOMAIN trace : trace[k].kind = "in_chain"

\* the callee of the site of the last iteration, its name, its number of
\* instructions and the price the store of the pass holds for it
Callee == before.m[Site.ref]
CalleeSize == count_func_insns(Callee)
CalleePrice ==
    LET at == Slots(pass_profile, Callee.name)
    IN  IF at = {} THEN DZero
        ELSE pass_profile.entries[CHOOSE i \in at : \A j \in at : i <= j].shadow_price

\* C16: under Shadow-price (inverted = 0) and Inverted-price (inverted = 1)
\* a call site that resolves and is not chained is promoted if and only if
\* the callee's instruction count is strictly below
\* compute_adjusted_threshold(price of the callee, inverted); at equality it
\* is not promoted.
C16_PromotedIffBelowThreshold ==
    (SiteDecidable /\ condition \in {COND_SHADOW_PRICE, COND_INVERTED_PRICE}) =>
        LET inverted  == IF condition = COND_INVERTED_PRICE THEN 1 ELSE 0
            threshold == compute_adjusted_threshold(CalleePrice, inverted, 0)
        IN  /\ dec.threshold = threshold
            /\ CalleeSize < threshold => (SitePromoted /\ dec.should_promote = 1)
            /\ CalleeSize >= threshold => (SiteSkipped /\ dec.should_promote = 0)

\* a callee priced 1/2 whose size is the threshold itself, left a plain call
C16_Witness ==
    /\ SiteDecidable
    /\ condition = COND_SHADOW_PRICE
    /\ CalleePrice = DRat(0, 1, 2)
    /\ CalleeSize = dec.threshold
    /\ CalleeSize = 127
    /\ SiteSkipped

\* what compute_adjusted_threshold(1.0, 1) can return
HotInverted == {compute_adjusted_threshold(DInt(1), 1, ub) : ub \in UBInts}

\* C17: compute_adjusted_threshold(1.0, 1) is the floor, 5; under
\* Inverted-price a callee of price 1.0 is promoted only if it has fewer than
\* 5 instructions, so none of 5 or more instructions is promoted, those that
\* Shadow-price promotes included.
C17_InvertedHotExtreme ==
    (SiteDecidable /\ condition = COND_INVERTED_PRICE /\ CalleePrice = DInt(1)) =>
        /\ HotInverted = {5}
        /\ dec.threshold = 5
        /\ dec.should_promote # 0 => CalleeSize < 5
        /\ CalleeSize >= 5 => SiteSkipped

\* Inverted-price leaves alone a callee of price 1.0 and exactly 5
\* instructions, which is below the Shadow-price threshold of that price
C17_Witness ==
    /\ SiteDecidable
    /\ condition = COND_INVERTED_PRICE
    /\ CalleePrice = DInt(1)
    /\ CalleeSize = 5
    /\ CalleeSize < compute_adjusted_threshold(DInt(1), 0, 0)
    /\ SiteSkipped

\* C19: a call instruction whose callee reference is null or is no function
\* item is skipped under every condition: not promoted, not counted, not
\* pushed on the chain, no random bit drawn, and the pass goes on to its
\* normal return.
C19_UnresolvedSiteSkipped ==
    /\ (SiteVisited /\ Site.code = "MIR_CALL"
          /\ (Site.ref = NullRef \/ before.m[Site.ref].item_type # "MIR_func_item")) =>
          /\ dec.kind \in {"null_callee", "not_func"}
          /\ dec.should_promote = 0
          /\ SiteSkipped
    /\ pc.state = "done" => ret = mutations /\ ret >= 0

\* a Random-50% pass, after a promotion, at a call through a prototype
C19_Witness ==
    /\ SiteVisited
    /\ condition = COND_RANDOM_50
    /\ Site.code = "MIR_CALL"
    /\ Site.ref # NullRef
    /\ before.m[Site.ref].item_type = "MIR_proto_item"
    /\ before.mutations > 0
    /\ SiteSkipped

\* C21: at every point of a pass the counter is the number of instructions
\* the pass has turned from a plain call into an inline candidate, and the
\* value the pass returns is that number for the whole unit, for every unit,
\* condition, profile and seed.
C21_ReturnsPromotionCount ==
    pc.state # "idle" =>
        /\ mutations = Cardinality(Changed)
        /\ mutations = Cardinality(Promoted)
        /\ pc.state = "done" => ret = Cardinality(Changed)

\* a finished Random-50% pass that promoted some sites, left others and
\* passed a chained one
C21_Witness ==
    /\ pc.state = "done"
    /\ condition = COND_RANDOM_50
    /\ ret = Cardinality(Changed)
    /\ ret >= 2
    /\ \E k \in DOMAIN trace : trace[k].kind = "decided" /\ trace[k].should_promote = 0
    /\ \E k \in DOMAIN trace : trace[k].kind = "in_chain"

\* C28: at every point of a pass the chain's depth is between 0 and
\* MAX_INLINE_CHAIN, its names array has its MAX_INLINE_CHAIN slots and no
\* other, and the names below the depth are pairwise distinct; a pass starts
\* from the empty chain; a promotion that finds the chain full gets 0 from
\* chain_push and leaves the chain as it was.
C28_ChainBounded ==
    pc.state # "idle" =>
        /\ chain.depth \in 0..MAX_INLINE_CHAIN
        /\ DOMAIN chain.names = 0..(MAX_INLINE_CHAIN - 1)
        /\ \A i1, i2 \in 0..(chain.depth - 1) :
              chain.names[i1] = chain.names[i2] => i1 = i2
        /\ trace = <<>> => chain.depth = 0
        /\ (dec.kind = "decided" /\ dec.should_promote # 0
               /\ before.chain.depth = MAX_INLINE_CHAIN) =>
              /\ chain_push_value(before.chain, dec.callee_name) = 0
              /\ chain = before.chain
        /\ (dec.kind = "decided" /\ dec.should_promote # 0
               /\ before.chain.depth < MAX_INLINE_CHAIN) =>
              /\ chain_push_value(before.chain, dec.callee_name) = 1
              /\ chain.depth = before.chain.depth + 1
              /\ chain.names[before.chain.depth] = dec.callee_name

\* a promotion on a full chain: the site is promoted and counted, the chain
\* keeps its MAX_INLINE_CHAIN names
C28_Witness ==
    /\ dec.kind = "decided"
    /\ dec.should_promote = 1
    /\ SitePromoted
    /\ before.chain.depth = MAX_INLINE_CHAIN
    /\ chain = before.chain
    /\ dec.callee_name \notin ChainNames(chain)

\* C29: under Shadow-price and Inverted-price, whatever the store holds for
\* the callee (no entry included), a call to a callee of
\* MIR_INLINE_THRESHOLD (200) or more instructions is left a plain call, and
\* a call that resolves, is not chained and has a callee of fewer than
\* THRESHOLD_FLOOR (5) instructions is promoted.
C29_SizeExtremes ==
    (SiteResolved /\ condition \in {COND_SHADOW_PRICE, COND_INVERTED_PRICE}) =>
        /\ CalleeSize >= MIR_INLINE_THRESHOLD => (SiteSkipped /\ dec.should_promote = 0)
        /\ (SiteDecidable /\ CalleeSize < THRESHOLD_FLOOR) =>
              (SitePromoted /\ dec.should_promote = 1)
        /\ SiteDecidable =>
              (dec.threshold >= THRESHOLD_FLOOR /\ dec.threshold <= MIR_INLINE_THRESHOLD)

\* Shadow-price at a callee of price 1.0 and 200 instructions: threshold 200,
\* left a plain call
C29_Witness ==
    /\ SiteDecidable
    /\ condition = COND_SHADOW_PRICE
    /\ CalleePrice = DInt(1)
    /\ CalleeSize = MIR_INLINE_THRESHOLD
    /\ dec.threshold = MIR_INLINE_THRESHOLD
    /\ SiteSkipped

\* the callee names of the plain call instructions of the unit whose callee
\* is a function item
ResolvableNames(unit) ==
    {unit[unit[ij[1]].insns[ij[2]].ref].name :
        ij \in {s \in UNION {{<<i, j>> : j \in DOMAIN unit[i].insns} : i \in DOMAIN unit} :
                  /\ unit[s[1]].item_type = "MIR_func_item"
                  /\ unit[s[1]].insns[s[2]].code = "MIR_CALL"
                  /\ unit[s[1]].insns[s[2]].ref # NullRef
                  /\ unit[unit[s[1]].insns[s[2]].ref].item_type = "MIR_func_item"}}

\* C30: over a unit with at most MAX_INLINE_CHAIN distinct resolvable callee
\* names, the count a pass returns, under any condition, profile and seed, is
\* at most the count mutate_module returns under Inline-all on the same
\* unit, and that count is the number of distinct resolvable callee names.
C30_AtMostInlineAll ==
    (pc.state # "idle"
       /\ Cardinality(ResolvableNames(pass_unit)) <= MAX_INLINE_CHAIN) =>
        LET all == mutate_module(pass_unit, COND_BLIND_ALL, pass_profile,
                                 Bits32(RANDOM_SEED), 0)
        IN  /\ all = Cardinality(ResolvableNames(pass_unit))
            /\ mutations <= all
            /\ pc.state = "done" => ret <= all
            /\ (pc.state = "done" /\ condition = COND_BLIND_ALL) => ret = all

\* a finished Shadow-price pass over a unit with MAX_INLINE_CHAIN callee
\* names and more call sites than names, that promoted fewer sites than
\* Inline-all
C30_Witness ==
    /\ pc.state = "done"
    /\ condition = COND_SHADOW_PRICE
    /\ Cardinality(ResolvableNames(pass_unit)) = MAX_INLINE_CHAIN
    /\ Cardinality({k \in DOMAIN trace : trace[k].kind \in {"decided", "in_chain"}})
          > MAX_INLINE_CHAIN
    /\ ret >= 1
    /\ ret < mutate_module(pass_unit, COND_BLIND_ALL, pass_profile, Bits32(RANDOM_SEED), 0)

(***************************************************************************)
(* Properties of repeated passes, under SpecRuns.                          *)
(***************************************************************************)

\* the pass that has just finished made the decisions of the caller's
\* previous pass at every call site, left the same module and returned the
\* same count
SameAsPrevious ==
    /\ trace = hist.prev.trace
    /\ m = hist.prev.m
    /\ ret = hist.prev.ret

\* the instruction is the unit's own, or the unit's plain call with its code
\* turned into inline candidate and nothing else changed
SameOrPromoted(old, new) ==
    \/ new = old
    \/ old.code = "MIR_CALL" /\ new = [old EXCEPT !.code = "MIR_INLINE"]

\* C22: the only effect of a pass on its unit is that plain calls become
\* inline candidates: the items, their kinds, names and instruction counts
\* stay, every instruction that was no plain call stays as it was (inline
\* candidates included) and a plain call keeps its callee; the Profile Store
\* stays as the pass found it, and so does the generator state under every
\* condition other than Random-50%.
C22_OnlyPromotesCalls ==
    (pc.state # "idle" /\ hist.caller # "none") =>
        /\ DOMAIN m = DOMAIN pass_unit
        /\ \A i \in DOMAIN pass_unit :
              /\ m[i].item_type = pass_unit[i].item_type
              /\ m[i].name = pass_unit[i].name
              /\ DOMAIN m[i].insns = DOMAIN pass_unit[i].insns
              /\ \A j \in DOMAIN pass_unit[i].insns :
                    SameOrPromoted(pass_unit[i].insns[j], m[i].insns[j])
        /\ profile = pass_profile
        /\ condition # COND_RANDOM_50 => rng_state = hist.seed

\* a finished Inverted-price pass, entered with a seed other than
\* RANDOM_SEED, over a unit with an inline candidate, that promoted a site
C22_Witness ==
    /\ pc.state = "done"
    /\ hist.caller = "direct"
    /\ condition = COND_INVERTED_PRICE
    /\ hist.seed = Bits32(1)
    /\ rng_state = hist.seed
    /\ ret >= 1
    /\ m # pass_unit
    /\ pass_profile.count > 0
    /\ \E i \in DOMAIN pass_unit : \E j \in DOMAIN pass_unit[i].insns :
          pass_unit[i].insns[j].code = "MIR_INLINE"

\* C18: two passes over the same unit entered with the same seed make the
\* same decision at every call site and return the same count, Random-50%
\* included; every run of run_condition enters its pass with RANDOM_SEED, so
\* all its runs make the same decisions.
C18_SameSeedSameDecisions ==
    (pc.state = "done" /\ hist.prev.valid) =>
        /\ hist.caller = "run_condition" =>
              /\ hist.seed = Bits32(RANDOM_SEED)
              /\ SameAsPrevious
        /\ hist.seed = hist.prev.seed => SameAsPrevious

\* a second Random-50% run of run_condition that promoted some sites and
\* left others, as the first did
C18_Witness ==
    /\ pc.state = "done"
    /\ hist.caller = "run_condition"
    /\ hist.run = 2
    /\ hist.prev.valid
    /\ condition = COND_RANDOM_50
    /\ \E k \in DOMAIN trace : trace[k].kind = "decided" /\ trace[k].should_promote = 1
    /\ \E k \in DOMAIN trace : trace[k].kind = "decided" /\ trace[k].should_promote = 0
    /\ SameAsPrevious

(***************************************************************************)
(* Properties of the test harness, under SpecHarness.                      *)
(***************************************************************************)

\* the threshold of C27 in exact arithmetic for a price that is an integer
\* n >= 0: base * clamp(n / 100, 0.1, 5.0) = base * clamp(n, 10, 500) / 100,
\* truncated and clamped to [5, 1000]
HarnessRefReal(price, opt_level) ==
    LET n == CastInt(price, 0)
        c == IF n < 10 THEN 10 ELSE IF n > 500 THEN 500 ELSE n
        t == (baseline_thresholds[opt_level + 1] * c) \div 100
    IN  IF t < 5 THEN 5 ELSE IF t > 1000 THEN 1000 ELSE t

\* the same formula in binary64, operation by operation
HarnessRefDouble(price, opt_level, ub) ==
    LET q     == DDiv(price, DInt(100))
        scale == IF DLt(q, DRat(0, 1, 10)) THEN DRat(0, 1, 10)
                 ELSE IF DGt(q, DInt(5)) THEN DInt(5) ELSE q
        t     == CastInt(DMul(DInt(baseline_thresholds[opt_level + 1]), scale), ub)
    IN  IF t < 5 THEN 5 ELSE IF t > 1000 THEN 1000 ELSE t

HotNames == {"f_hot1", "f_hot2", "f_hot3", "f_hot4"}
WarmColdNames == {"f_warm1", "f_warm2", "f_cold1", "f_cold2"}

\* the names of the callees at the call sites the pass has promoted, and of
\* the callees of the inline instructions of the module
PromotedNames == {trace[k].callee_name : k \in Promoted}
InlinedNames ==
    UNION {{m[m[i].insns[n].ref].name :
               n \in {k \in DOMAIN m[i].insns : m[i].insns[k].code = "MIR_INLINE"}} :
           i \in {j \in DOMAIN m : m[j].item_type = "MIR_func_item"}}

\* the sizes of the callees of the unit the pass ran on, by name
UnitSizes ==
    {<<pass_unit[i].name, count_func_insns(pass_unit[i])>> :
        i \in {j \in DOMAIN pass_unit : pass_unit[j].item_type = "MIR_func_item"
                                          /\ pass_unit[j].name # "driver"}}

C23_OneContextAtATime ==
    /\ Cardinality(prog.live) <= 1
    /\ \A x \in prog.live : x.id = prog.created
    /\ prog.pc \in {"returned", "exit"} => prog.live = {}
    /\ prog.pc \in {"sizes", "thresholds", "cond", "run"} => prog.live = {}
    /\ (prog.pc = "exit" /\ prog.status = 0) =>
          prog.created = 2 + COND_COUNT * NUM_RUNS

\* the program has ended normally, every context it created finished
C23_Witness ==
    /\ prog.pc = "exit"
    /\ prog.status = 0
    /\ prog.created = 2 + COND_COUNT * NUM_RUNS
    /\ prog.live = {}

\* the lines of the output with the given text
OutLines(text) == {k \in DOMAIN prog.out : prog.out[k].text = text}

\* C24: once a run has found no driver or no address for it, run_condition
\* has returned -1 with the remaining runs not run and no statistics
\* computed, and main does nothing but report the failure and end with
\* status 1: no later condition is started, no line of the failed condition
\* and no summary is printed.
C24_FailedRunAbandonsAll ==
    /\ prog.rc = -1 =>
          /\ prog.pc \in {"returned", "exit"}
          /\ prog.run < NUM_RUNS
          /\ prog.results[prog.c].timed = prog.run
          /\ ~prog.results[prog.c].stats
          /\ prog.created = 2 + prog.c * NUM_RUNS + prog.run + 1
          /\ prog.started = [k \in 1..(prog.c + 1) |-> k - 1]
          /\ \A c \in (prog.c + 1)..(COND_COUNT - 1) : prog.results[c] = NoResult
          /\ Cardinality(OutLines("ERROR: Could not find/compile 'driver'")) = 1
          /\ OutLines("RESULTS SUMMARY") = {}
          /\ \A k \in OutLines("done") : prog.out[k].a < prog.c
          /\ prog.pc = "exit" =>
                /\ prog.status = 1
                /\ prog.out[Len(prog.out)] = Line("stderr", "FAILED!", prog.c, 0)
                /\ prog.out[Len(prog.out) - 1].text = "ERROR: Could not find/compile 'driver'"
    /\ prog.status = 1 => prog.rc = -1
    /\ (prog.pc = "exit" /\ prog.rc # -1) => prog.status = 0

\* the second run of the second condition failed after a first run that was
\* timed, and the program has ended with status 1
C24_Witness ==
    /\ prog.pc = "exit"
    /\ prog.rc = -1
    /\ prog.status = 1
    /\ prog.c = 1
    /\ prog.run = 1
    /\ prog.results[1].timed = 1
    /\ prog.results[0].stats
    /\ prog.results[2] = NoResult

====
